---- MODULE Spec2Model ----
(***************************************************************************)
(* Bid lifecycle, audit trail and reconciliation of the market_analysis    *)
(* application: Project.save and the handlers that write bids (views,      *)
(* admin, management commands, import scripts), as state machines over the *)
(* database tables.                                                        *)
(*                                                                         *)
(* Texts are tuples of one-character strings.  A date is the tuple <<n>>   *)
(* of its day number, a null date is the empty tuple.  Python's None for a *)
(* string-valued field is the string "None"; the primary key of an unsaved *)
(* instance is 0.                                                          *)
(***************************************************************************)
EXTENDS Integers, Sequences, FiniteSets, TLC

VARIABLES
    today,           \* timezone.now().date(), as a day number
    clients,         \* table clients: sequence of client names (Text), pk = index
    projects,        \* table projects: sequence of rows, pk = index
    contracts,       \* table project_contracts: sequence of rows
    snapshots,       \* table project_snapshots
    bid_history,     \* table bid_type_history
    status_history,  \* table project_status_history
    changelog,       \* table change_log
    details,         \* tables competitors, financials, project_technologies, scope_of_work
    opsLeft,         \* number of handler calls still to be made
    faultsLeft,      \* number of handler calls that may still hit a failing store
    last,            \* what the last handler call was given and what it did
    run              \* the batch import in progress (rows, position, counters)

vars == <<today, clients, projects, contracts, snapshots, bid_history,
          status_history, changelog, details, opsLeft, faultsLeft, last, run>>

-----------------------------------------------------------------------------
(* Bounds of the model *)

MaxOps == 3

MaxHandlerOps == 2

MaxFaultOps == 2

MaxDay == 2

MaxBids == 1

MaxFaults == 1

MaxRows == 2

MaxFinancialOps == 2

MaxTextLen == 3

MaxClientLen == 3

MaxSurveyLen == 2

MaxContractOps == 2

MaxBackfillOps == 3

MaxClock == 3

MaxCatalog == 3

-----------------------------------------------------------------------------
(* Values *)

None == "None"

NoDate == << >>

Date(n) == <<n>>

Min(a, b) == IF a <= b THEN a ELSE b

Max(a, b) == IF a >= b THEN a ELSE b

\* Project.STATUS
STATUS == {"Ongoing", "Submitted", "Won", "Lost", "Cancelled", "No Bid"}

\* Project.BID_TYPE
BID_TYPE == {"RFQ", "RFP", "RFI", "MC", "DR", "BQ"}

\* Project.STATUS_CODES
STATUS_CODES(s) ==
    CASE s = "Ongoing"   -> <<"O", "N", "G">>
      [] s = "Submitted" -> <<"S", "U", "B">>
      [] s = "Won"       -> <<"W", "O", "N">>
      [] s = "Lost"      -> <<"L", "S", "T">>
      [] s = "Cancelled" -> <<"C", "X", "L">>
      [] s = "No Bid"    -> <<"N", "B", "D">>

\* the characters of a bid type code
BidChars(b) ==
    CASE b = "RFQ" -> <<"R", "F", "Q">>
      [] b = "RFP" -> <<"R", "F", "P">>
      [] b = "RFI" -> <<"R", "F", "I">>
      [] b = "MC"  -> <<"M", "C">>
      [] b = "DR"  -> <<"D", "R">>
      [] b = "BQ"  -> <<"B", "Q">>

LowerLetters == <<"a", "b", "c", "s", "x">>

UpperLetters == <<"A", "B", "C", "S", "X">>

Digits == {"0", "1", "2", "5"}

\* str.upper() on one character
UpperChar(c) ==
    IF \E i \in 1..Len(LowerLetters) : LowerLetters[i] = c
    THEN UpperLetters[CHOOSE i \in 1..Len(LowerLetters) : LowerLetters[i] = c]
    ELSE c

\* str.lower() on one character
LowerChar(c) ==
    IF \E i \in 1..Len(UpperLetters) : UpperLetters[i] = c
    THEN LowerLetters[CHOOSE i \in 1..Len(UpperLetters) : UpperLetters[i] = c]
    ELSE c

Upper(t) == [i \in 1..Len(t) |-> UpperChar(t[i])]

Lower(t) == [i \in 1..Len(t) |-> LowerChar(t[i])]

IsAlnum(c) ==
    \/ \E i \in 1..Len(LowerLetters) : LowerLetters[i] = c \/ UpperLetters[i] = c
    \/ c \in Digits
    \/ c \in {"D", "F", "G", "I", "L", "M", "N", "O", "P", "Q", "R", "T", "U", "W"}

\* sanitize(): keep the alphanumeric characters
sanitize(t) == SelectSeq(t, IsAlnum)

\* strftime("%Y%m"): every modelled day lies in January 2025
YearMonth(d) == IF d = NoDate THEN << >> ELSE <<"2", "0", "2", "5", "0", "1">>

RECURSIVE Join(_)
\* "-".join(parts)
Join(parts) ==
    IF parts = << >> THEN << >>
    ELSE IF Len(parts) = 1 THEN parts[1]
    ELSE parts[1] \o <<"-">> \o Join(Tail(parts))

\* "-".join(part for part in parts if part)
JoinParts(parts) == Join(SelectSeq(parts, LAMBDA p : p # << >>))

ClientName(cl, client) == IF client = 0 THEN << >> ELSE cl[client]

\* the five base parts of the identity code
BaseParts(cl, inst) ==
    << sanitize(YearMonth(inst.date_received)),
       sanitize(Upper(BidChars(inst.bid_type))),
       sanitize(Upper(SelectSeq(ClientName(cl, inst.client), LAMBDA c : c # " "))),
       sanitize(Upper(SubSeq(inst.name, 1, Min(3, Len(inst.name))))),
       sanitize(inst.country) >>

\* the pre_save receiver: fill a blank internal_id when date_received is present
build_internal_id(cl, inst) ==
    IF inst.internal_id # << >> THEN inst
    ELSE IF inst.date_received = NoDate THEN inst
    ELSE [inst EXCEPT !.internal_id = JoinParts(BaseParts(cl, inst))]

\* the rebuild without the status code
BaseInternalId(cl, inst) == JoinParts(BaseParts(cl, inst))

\* Project.save, the rebuild on a status change: base parts plus the status code
StatusInternalId(cl, inst) ==
    JoinParts(BaseParts(cl, inst) \o << sanitize(STATUS_CODES(inst.status)) >>)

\* a new, unsaved Project instance (model field defaults)
NewProject(name, client, country, bid_type, status, date_received, submission_date) ==
    [ pk |-> 0, name |-> name, client |-> client, country |-> country,
      bid_type |-> bid_type, status |-> status, date_received |-> date_received,
      submission_date |-> submission_date, award_date |-> NoDate,
      lost_date |-> NoDate, internal_id |-> << >> ]

\* the tables as one value
DB == [ clients |-> clients, projects |-> projects, contracts |-> contracts,
        snapshots |-> snapshots, bid_history |-> bid_history,
        status_history |-> status_history, changelog |-> changelog ]

EmptyDB == [ clients |-> << >>, projects |-> << >>, contracts |-> << >>,
             snapshots |-> << >>, bid_history |-> << >>,
             status_history |-> << >>, changelog |-> << >> ]

\* the writes of Project.save that an unavailable store can fail
AuditWrites == {"snapshot_BID", "snapshot_STATUS", "bid_history",
                "status_history", "changelog_STATUS", "changelog_BID"}

AllWrites == AuditWrites \cup {"contract", "project"}

\* rows of one project in a table
RowsOf(table, pk) == SelectSeq(table, LAMBDA r : r.project = pk)

RowsOfType(table, pk, ct) ==
    SelectSeq(table, LAMBDA r : r.project = pk /\ r.change_type = ct)

-----------------------------------------------------------------------------
(* Project.save *)

\* a save that stamps the submission date whenever the status is Submitted
StampSubmissionAlways(prev_status, status, submission_date, now) ==
    IF status = "Submitted" THEN Date(now) ELSE submission_date

\* "Ongoing -> Submitted (or creation already in Submitted)": the new submission date
StampSubmission(prev_status, status, submission_date, now) ==
    IF status = "Submitted"
       /\ (prev_status = None \/ prev_status = "Ongoing" \/ prev_status # "Submitted")
    THEN (IF submission_date = NoDate THEN Date(now) ELSE submission_date)
    ELSE submission_date

\* a save that stamps the award date without looking at the one present
StampAwardUnguarded(prev_status, status, award_date, now) ==
    IF prev_status = "Submitted" /\ status = "Won" THEN Date(now) ELSE award_date

\* "Submitted -> Won": the new award date
StampAward(prev_status, status, award_date, now) ==
    IF prev_status = "Submitted" /\ status = "Won"
    THEN (IF award_date = NoDate THEN Date(now) ELSE award_date)
    ELSE award_date

\* "Submitted -> Lost": the new lost date
StampLost(prev_status, status, lost_date, now) ==
    IF prev_status = "Submitted" /\ status = "Lost"
    THEN (IF lost_date = NoDate THEN Date(now) ELSE lost_date)
    ELSE lost_date

Snapshot(pk, change_type, prev, user) ==
    [ project |-> pk, change_type |-> change_type, snapshot |-> prev,
      snapshot_name |-> (IF prev.internal_id # << >> THEN prev.internal_id ELSE prev.name),
      created_by |-> user ]

\* the try block that snapshots the previous row: BID first, then STATUS; the
\* first write that raises ends the block
SnapshotsBeforeSave(rows, pk, hasPrev, prev, new_bid, new_status, user, F) ==
    IF ~hasPrev THEN rows
    ELSE LET wantBid == prev.bid_type # new_bid
             wantStatus == prev.status # new_status
             bidRaised == wantBid /\ "snapshot_BID" \in F
             afterBid == IF wantBid /\ ~bidRaised
                         THEN Append(rows, Snapshot(pk, "BID", prev, user))
                         ELSE rows
         IN  IF wantStatus /\ ~bidRaised /\ "snapshot_STATUS" \notin F
             THEN Append(afterBid, Snapshot(pk, "STATUS", prev, user))
             ELSE afterBid

\* BidTypeHistory.objects.create when the bid type changed
BidHistoryAfterSave(rows, pk, prev_bid, inst, F) ==
    IF prev_bid # inst.bid_type /\ "bid_history" \notin F
    THEN Append(rows, [ project |-> pk, previous_bid_type |-> prev_bid,
                        new_bid_type |-> inst.bid_type ])
    ELSE rows

\* ProjectStatusHistory.objects.create when the status changed
StatusHistoryAfterSave(rows, pk, prev_status, inst, F) ==
    IF prev_status # inst.status /\ "status_history" \notin F
    THEN Append(rows, [ project |-> pk, previous_status |-> prev_status,
                        new_status |-> inst.status ])
    ELSE rows

NewContract(pk) ==
    [ project |-> pk, contract_date |-> NoDate, actual_start |-> NoDate,
      actual_end |-> NoDate, actual_duration |-> << >> ]

\* objects.create in place of get_or_create
CreateContract(rows, pk) == Append(rows, NewContract(pk))

\* ProjectContract.objects.get_or_create(project=...)
GetOrCreateContract(rows, pk) ==
    IF \E i \in 1..Len(rows) : rows[i].project = pk THEN rows
    ELSE Append(rows, NewContract(pk))

\* "if project has become Won, ensure a ProjectContract row exists"; an
\* exception of the store is swallowed
ContractsAfterSave(rows, pk, prev_status, inst, F) ==
    IF prev_status # inst.status /\ inst.status = "Won" /\ "contract" \notin F
    THEN GetOrCreateContract(rows, pk)
    ELSE rows

\* an entry that always carries the submission date
EventDateOfSubmission(inst) == inst.submission_date

\* the event_date of a STATUS ChangeLog entry
EventDate(inst) ==
    IF inst.status = "Submitted" THEN inst.submission_date
    ELSE IF inst.status = "Won" THEN inst.award_date
    ELSE IF inst.status = "Lost" THEN inst.lost_date
    ELSE NoDate

\* the try block of the unified ChangeLog: STATUS first, then BID; the first
\* write that raises ends the block
ChangeLogAfterSave(rows, pk, prev_status, prev_bid, inst, F) ==
    LET wantStatus == prev_status # inst.status
        wantBid == prev_bid # inst.bid_type
        statusRaised == wantStatus /\ "changelog_STATUS" \in F
        afterStatus ==
            IF wantStatus /\ ~statusRaised
            THEN Append(rows, [ project |-> pk, change_type |-> "STATUS",
                                field_name |-> "status",
                                previous_value |-> prev_status,
                                new_value |-> inst.status,
                                event_date |-> EventDate(inst),
                                changed_by |-> None ])
            ELSE rows
    IN  IF wantBid /\ ~statusRaised /\ "changelog_BID" \notin F
        THEN Append(afterStatus, [ project |-> pk, change_type |-> "BID",
                                   field_name |-> "bid_type",
                                   previous_value |-> prev_bid,
                                   new_value |-> inst.bid_type,
                                   event_date |-> NoDate,
                                   changed_by |-> None ])
        ELSE afterStatus

\* the milestone dates set before the row is written
StampDates(prev_status, inst, now) ==
    [inst EXCEPT
        !.submission_date = StampSubmission(prev_status, inst.status, @, now),
        !.award_date = StampAward(prev_status, inst.status, @, now),
        !.lost_date = StampLost(prev_status, inst.status, @, now)]

\* a save in which a failing audit write is not caught
RaisesOnAnyFailure(F) == F # {}

\* whether the call raises: only the write of the bid's own row is outside
\* every try block
Raises(F) == "project" \in F

\* super().save(): INSERT of a new row or UPDATE of the row with the instance's pk
WriteProject(rows, inst) ==
    IF inst.pk = 0
    THEN Append(rows, [inst EXCEPT !.pk = Len(rows) + 1])
    ELSE [rows EXCEPT ![inst.pk] = inst]

\* Project.save(self) on database db at date now, with the writes in F failing.
\* The result: the database afterwards, the instance afterwards, and whether
\* the call raised.
ProjectSave(db, self, now, F) ==
    LET hasPrev == self.pk # 0
        prev == IF hasPrev THEN db.projects[self.pk] ELSE self
        prev_bid == IF hasPrev THEN prev.bid_type ELSE None
        prev_status == IF hasPrev THEN prev.status ELSE None
        dated == StampDates(prev_status, self, now)
        snaps == SnapshotsBeforeSave(db.snapshots, self.pk, hasPrev, prev,
                                     dated.bid_type, dated.status, None, F)
        coded == IF prev_status # None /\ prev_status # dated.status
                 THEN [dated EXCEPT !.internal_id = StatusInternalId(db.clients, dated)]
                 ELSE dated
        ready == build_internal_id(db.clients, coded)
        rows == WriteProject(db.projects, ready)
        pk == IF hasPrev THEN self.pk ELSE Len(db.projects) + 1
        saved == [ready EXCEPT !.pk = pk]
    IN  IF Raises(F)
        THEN [ db |-> [db EXCEPT !.snapshots = snaps], self |-> ready, raised |-> TRUE ]
        ELSE [ db |-> [ clients |-> db.clients,
                        projects |-> rows,
                        contracts |-> ContractsAfterSave(db.contracts, pk, prev_status, saved, F),
                        snapshots |-> snaps,
                        bid_history |-> BidHistoryAfterSave(db.bid_history, pk, prev_bid, saved, F),
                        status_history |-> StatusHistoryAfterSave(db.status_history, pk, prev_status, saved, F),
                        changelog |-> ChangeLogAfterSave(db.changelog, pk, prev_status, prev_bid, saved, F) ],
               self |-> saved, raised |-> FALSE ]

-----------------------------------------------------------------------------
(* ProjectContract.save *)

\* actual_duration is computed when start and end are both provided
ContractSave(c) ==
    IF c.actual_start # NoDate /\ c.actual_end # NoDate
    THEN [c EXCEPT !.actual_duration = << Max(0, c.actual_end[1] - c.actual_start[1]) >>]
    ELSE c

ContractIndex(rows, pk) == CHOOSE i \in 1..Len(rows) : rows[i].project = pk

-----------------------------------------------------------------------------
(* Inputs of the handlers *)

\* the bid types and statuses the callers choose from
BidTypes == {"BQ", "RFQ"}

Statuses == {"Ongoing", "Submitted", "Won", "Lost", "Cancelled"}

\* the explicit date a caller supplies: a day before the first modelled day
CallerDate == Date(0)

SurveyName == <<"a", "b">>

ClientText == <<"c", " ", "x">>

Country == <<"B", "R">>

Users == {"user"}

\* what a caller does to the milestone dates of the instance before save
DateEdits ==
    {[field |-> "none", value |-> NoDate]}
    \cup [field : {"submission_date", "award_date", "lost_date"}, value : {CallerDate}]

\* a form can also clear a date
FormDateEdits ==
    DateEdits \cup [field : {"submission_date", "award_date", "lost_date"}, value : {NoDate}]

SetDate(inst, edit) ==
    IF edit.field = "submission_date" THEN [inst EXCEPT !.submission_date = edit.value]
    ELSE IF edit.field = "award_date" THEN [inst EXCEPT !.award_date = edit.value]
    ELSE IF edit.field = "lost_date" THEN [inst EXCEPT !.lost_date = edit.value]
    ELSE inst

\* the sets of failing writes a handler call can meet: none, one write, or the
\* whole audit store
Faults(budget) ==
    IF budget = 0 THEN {{}}
    ELSE {{}} \cup {{w} : w \in AllWrites} \cup {AuditWrites}

\* the record of a handler call
Call(op, pk, before, given, now, F, raised) ==
    [ op |-> op, pk |-> pk, before |-> before, given |-> given, now |-> now,
      F |-> F, raised |-> raised ]

NoCall ==
    Call("none", 0, EmptyDB, NewProject(<< >>, 0, << >>, "BQ", "Ongoing", NoDate, NoDate),
         0, {}, FALSE)

NoRun == [ script |-> "none" ]

Commit(db) ==
    /\ clients' = db.clients
    /\ projects' = db.projects
    /\ contracts' = db.contracts
    /\ snapshots' = db.snapshots
    /\ bid_history' = db.bid_history
    /\ status_history' = db.status_history
    /\ changelog' = db.changelog

Spend(F) == faultsLeft' = IF F = {} THEN faultsLeft ELSE faultsLeft - 1

-----------------------------------------------------------------------------
(* The handlers that write one bid *)

\* the date moves on
Tick ==
    /\ today < MaxDay
    /\ today' = today + 1
    /\ UNCHANGED <<clients, projects, contracts, snapshots, bid_history,
                   status_history, changelog, details, opsLeft, faultsLeft, last, run>>

\* Project.objects.create(...): save of a new instance
CreateProject ==
    /\ opsLeft > 0
    /\ Len(projects) < MaxBids
    /\ \E status \in Statuses, bid_type \in BidTypes,
          submission_date \in {NoDate, CallerDate}, F \in Faults(faultsLeft) :
          LET given == NewProject(SurveyName, 1, Country, bid_type, status,
                                  CallerDate, submission_date)
              res == ProjectSave(DB, given, today, F)
          IN  /\ Commit(res.db)
              /\ last' = Call("create", res.self.pk, DB, given, today, F, res.raised)
              /\ Spend(F)
    /\ opsLeft' = opsLeft - 1
    /\ UNCHANGED <<today, details, run>>

\* a caller loads a bid, assigns status, bid type or a date, and calls save()
SaveProject ==
    /\ opsLeft > 0
    /\ \E pk \in 1..Len(projects), status \in Statuses, bid_type \in BidTypes,
          edit \in DateEdits, F \in Faults(faultsLeft) :
          LET given == SetDate([projects[pk] EXCEPT !.status = status,
                                                    !.bid_type = bid_type], edit)
              res == ProjectSave(DB, given, today, F)
          IN  /\ Commit(res.db)
              /\ last' = Call("save", pk, DB, given, today, F, res.raised)
              /\ Spend(F)
    /\ opsLeft' = opsLeft - 1
    /\ UNCHANGED <<today, details, run>>

\* the newest entry of the unified log for this value that nobody is named on
LatestUnattributed(rows, pk, change_type, new_value) ==
    LET hits == {i \in 1..Len(rows) : /\ rows[i].project = pk
                                       /\ rows[i].change_type = change_type
                                       /\ rows[i].new_value = new_value
                                       /\ rows[i].changed_by = None}
    IN  IF hits = {} THEN 0 ELSE CHOOSE i \in hits : \A j \in hits : j <= i

Attribute(rows, i, user) ==
    IF i = 0 THEN rows ELSE [rows EXCEPT ![i].changed_by = user]

\* views and admin, after the save: name the user on the entries just written
AttachChangedBy(rows, prev, project, user) ==
    LET afterStatus ==
            IF prev.status # project.status
            THEN Attribute(rows, LatestUnattributed(rows, project.pk, "STATUS",
                                                    project.status), user)
            ELSE rows
    IN  IF prev.bid_type # project.bid_type
        THEN Attribute(afterStatus, LatestUnattributed(afterStatus, project.pk, "BID",
                                                       project.bid_type), user)
        ELSE afterStatus

\* Competitor.COMPETITOR_CHOICES as the forms offer them: blank, or a code
CompetitorChoices == {"", "PXGEO"}

\* objects.create of a dependent row
CreateDetail(rows, table, pk, value) ==
    Append(rows, [ table |-> table, project |-> pk, value |-> value ])

HasDetail(rows, table, pk) ==
    \E i \in 1..Len(rows) : rows[i].table = table /\ rows[i].project = pk

\* objects.get_or_create(project=..., defaults=...)
GetOrCreateDetail(rows, table, pk, value) ==
    IF HasDetail(rows, table, pk) THEN rows ELSE CreateDetail(rows, table, pk, value)

\* objects.update_or_create(project=..., defaults=...), or get then set and save
UpdateOrCreateDetail(rows, table, pk, value) ==
    IF HasDetail(rows, table, pk)
    THEN LET i == CHOOSE i \in 1..Len(rows) :
                      /\ rows[i].table = table /\ rows[i].project = pk
                      /\ \A j \in 1..(i - 1) :
                             ~(rows[j].table = table /\ rows[j].project = pk)
         IN  [rows EXCEPT ![i].value = value]
    ELSE CreateDetail(rows, table, pk, value)

\* ProjectEditForm.clean
ProjectEditFormValid(inst) ==
    ~(inst.status = "Submitted" /\ inst.submission_date = NoDate)

\* edit_project: the snapshots the view writes itself before form.save()
ViewSnapshots(rows, prev, new_bid, new_status, user, F) ==
    SnapshotsBeforeSave(rows, prev.pk, TRUE, prev, new_bid, new_status, user, F)

\* views.edit_project, POST of a valid form
EditProject ==
    /\ opsLeft > 0
    /\ \E pk \in 1..Len(projects), status \in Statuses, bid_type \in BidTypes,
          edit \in FormDateEdits, competitor_name \in CompetitorChoices,
          user \in Users, F \in Faults(faultsLeft) :
          LET prev == projects[pk]
              given == SetDate([prev EXCEPT !.status = status,
                                            !.bid_type = bid_type], edit)
              snaps == ViewSnapshots(snapshots, prev, bid_type, status, user, F)
              res == ProjectSave([DB EXCEPT !.snapshots = snaps], given, today, F)
              logs == IF res.raised THEN res.db.changelog
                      ELSE AttachChangedBy(res.db.changelog, prev, res.self, user)
          IN  /\ ProjectEditFormValid(given)
              /\ status # "Lost" => competitor_name = ""
              /\ Commit([res.db EXCEPT !.changelog = logs])
              /\ details' = IF ~res.raised /\ res.self.status = "Lost"
                                /\ competitor_name # ""
                             THEN CreateDetail(details, "competitors", pk, competitor_name)
                             ELSE details
              /\ last' = Call("edit_project", pk, DB, given, today, F, res.raised)
              /\ Spend(F)
    /\ opsLeft' = opsLeft - 1
    /\ UNCHANGED <<today, run>>

\* ProjectAdmin.save_model: the snapshot block calls _build_snapshot_from_instance,
\* a name admin.py does not define; the NameError is swallowed by the block's
\* except clause before any row is written
AdminSnapshots(rows, prev, new_bid, new_status, user) == rows

\* ProjectAdmin.save_model on an existing bid; the milestone dates and the
\* internal_id are read-only in the admin form
AdminSaveModel ==
    /\ opsLeft > 0
    /\ \E pk \in 1..Len(projects), status \in Statuses, bid_type \in BidTypes,
          user \in Users, F \in Faults(faultsLeft) :
          LET prev == projects[pk]
              given == [prev EXCEPT !.status = status, !.bid_type = bid_type]
              snaps == AdminSnapshots(snapshots, prev, bid_type, status, user)
              res == ProjectSave([DB EXCEPT !.snapshots = snaps], given, today, F)
              logs == IF res.raised THEN res.db.changelog
                      ELSE AttachChangedBy(res.db.changelog, prev, res.self, user)
          IN  /\ Commit([res.db EXCEPT !.changelog = logs])
              /\ last' = Call("save_model", pk, DB, given, today, F, res.raised)
              /\ Spend(F)
    /\ opsLeft' = opsLeft - 1
    /\ UNCHANGED <<today, details, run>>

\* the contract dates a POST of the dashboard modal carries
ContractDates ==
    { <<NoDate, NoDate>>, <<Date(1), Date(2)>>, <<Date(2), Date(1)>> }

\* views.update_contract, POST: "" is no new_status
UpdateContract ==
    /\ opsLeft > 0
    /\ \E pk \in 1..Len(projects), new_status \in Statuses \cup {""},
          edit \in DateEdits, dates \in ContractDates,
          competitor \in {None, "PXGEO"}, F \in Faults(faultsLeft) :
          LET rows == GetOrCreateContract(contracts, pk)
              dated == SetDate(projects[pk], edit)
              given == IF new_status # "" THEN [dated EXCEPT !.status = new_status]
                       ELSE dated
              res == ProjectSave([DB EXCEPT !.contracts = rows], given, today, F)
              i == ContractIndex(res.db.contracts, pk)
              contract == ContractSave([res.db.contracts[i] EXCEPT
                                            !.actual_start = dates[1],
                                            !.actual_end = dates[2]])
          IN  /\ given.status # "Lost" => competitor = None
              /\ IF "contract" \in F
                 THEN UNCHANGED <<clients, projects, contracts, snapshots, bid_history,
                                  status_history, changelog, details>>
                 ELSE /\ Commit([res.db EXCEPT !.contracts[i] = contract])
                      /\ details' = IF given.status = "Lost" /\ competitor # None
                                     THEN CreateDetail(details, "competitors", pk,
                                                       competitor)
                                     ELSE details
              /\ last' = Call("update_contract", pk, DB, given, today, F,
                              res.raised \/ "contract" \in F)
              /\ Spend(F)
    /\ opsLeft' = opsLeft - 1
    /\ UNCHANGED <<today, run>>

\* fix_award_dates, one bid: the award date is cleared when it equals the
\* submission date, and the status is set by QuerySet.update
FixAwardDate(p) ==
    IF p.status # "Submitted" THEN p
    ELSE [p EXCEPT !.award_date = IF @ # NoDate /\ p.submission_date # NoDate
                                      /\ @ = p.submission_date
                                   THEN NoDate ELSE @,
                   !.status = "Won"]

\* manage.py fix_award_dates (not a dry run)
FixAwardDates ==
    /\ opsLeft > 0
    /\ projects' = [i \in 1..Len(projects) |-> FixAwardDate(projects[i])]
    /\ last' = Call("fix_award_dates", 0, DB, NoCall.given, today, {}, FALSE)
    /\ opsLeft' = opsLeft - 1
    /\ UNCHANGED <<today, clients, contracts, snapshots, bid_history,
                   status_history, changelog, details, faultsLeft, run>>

-----------------------------------------------------------------------------
(* The bid lifecycle *)

Start(calls, faults) ==
    /\ today = 1
    /\ clients = << ClientText >>
    /\ projects = << >>
    /\ contracts = << >>
    /\ snapshots = << >>
    /\ bid_history = << >>
    /\ status_history = << >>
    /\ changelog = << >>
    /\ details = << >>
    /\ opsLeft = calls
    /\ faultsLeft = faults
    /\ last = NoCall
    /\ run = NoRun

\* Project.save and the command that sets statuses in bulk, on a working store
Init == Start(MaxOps, 0)

Next ==
    \/ Tick
    \/ CreateProject
    \/ SaveProject
    \/ FixAwardDates

Spec == Init /\ [][Next]_vars

\* every entry point that writes a bid, on a working store
InitHandlers == Start(MaxHandlerOps, 0)

NextHandlers ==
    \/ Tick
    \/ CreateProject
    \/ SaveProject
    \/ EditProject
    \/ AdminSaveModel
    \/ UpdateContract
    \/ FixAwardDates

SpecHandlers == InitHandlers /\ [][NextHandlers]_vars

\* the entry points on a store whose writes can fail
InitFault == Start(MaxFaultOps, MaxFaults)

NextFault ==
    \/ CreateProject
    \/ SaveProject
    \/ EditProject
    \/ UpdateContract

SpecFault == InitFault /\ [][NextFault]_vars

-----------------------------------------------------------------------------
(* Name matching of the import scripts *)

\* fixed-point scores: 1.0 is Scale
Scale == 1000 * 1000

\* import_obn_lost_bids.py / import_submitted_progress.py
HIGH_CONFIDENCE_THRESHOLD == 850000

MEDIUM_CONFIDENCE_THRESHOLD == 500000

LOW_CONFIDENCE_THRESHOLD == 300000

RECURSIVE StripLeading(_)
\* re.sub(r'^[*\s]+', '', name)
StripLeading(t) ==
    IF t # << >> /\ t[1] \in {"*", " "} THEN StripLeading(Tail(t)) ELSE t

RECURSIVE Strip(_)
\* str.strip()
Strip(t) ==
    IF t = << >> THEN t
    ELSE IF t[1] = " " THEN Strip(Tail(t))
    ELSE IF t[Len(t)] = " " THEN Strip(SubSeq(t, 1, Len(t) - 1))
    ELSE t

RECURSIVE SplitAcc(_, _, _)
SplitAcc(t, word, acc) ==
    IF t = << >> THEN (IF word = << >> THEN acc ELSE Append(acc, word))
    ELSE IF t[1] = " "
         THEN SplitAcc(Tail(t), << >>, IF word = << >> THEN acc ELSE Append(acc, word))
         ELSE SplitAcc(Tail(t), Append(word, t[1]), acc)

\* str.split(): the words of a text
Split(t) == SplitAcc(t, << >>, << >>)

RECURSIVE JoinSpace(_)
\* ' '.join(words)
JoinSpace(words) ==
    IF words = << >> THEN << >>
    ELSE IF Len(words) = 1 THEN words[1]
    ELSE words[1] \o <<" ">> \o JoinSpace(Tail(words))

\* normalize_name of the import scripts
normalize_name(name) ==
    IF name = << >> THEN << >>
    ELSE Strip(Lower(JoinSpace(Split(StripLeading(name)))))

\* a in b, for texts
Contains(a, b) ==
    \E i \in 0..(Len(b) - Len(a)) : SubSeq(b, i + 1, i + Len(a)) = a

Range(seq) == {seq[i] : i \in 1..Len(seq)}

\* get_ngrams(s, 2)
get_ngrams(s) == {SubSeq(s, i, i + 1) : i \in 1..(Len(s) - 1)}

\* calculate_similarity, the last two methods: shared words, then shared bigrams
SimilarityOfWords(words1, words2, ngrams1, ngrams2) ==
    IF words1 \cap words2 # {}
    THEN (5 * Scale) \div 10
         + (4 * Scale * Cardinality(words1 \cap words2))
               \div (10 * Cardinality(words1 \cup words2))
    ELSE IF ngrams1 # {} /\ ngrams2 # {}
    THEN (3 * Scale * Cardinality(ngrams1 \cap ngrams2))
             \div (10 * Cardinality(ngrams1 \cup ngrams2))
    ELSE 0

\* calculate_similarity, on the two normalized names
SimilarityOfNormalized(s1_norm, s2_norm) ==
    IF s1_norm = << >> \/ s2_norm = << >> THEN 0
    ELSE IF s1_norm = s2_norm THEN Scale
    ELSE IF Contains(s1_norm, s2_norm) \/ Contains(s2_norm, s1_norm)
    THEN (7 * Scale) \div 10
         + (2 * Scale * Min(Len(s1_norm), Len(s2_norm)))
               \div (10 * Max(Len(s1_norm), Len(s2_norm)))
    ELSE SimilarityOfWords(Range(Split(s1_norm)), Range(Split(s2_norm)),
                           get_ngrams(s1_norm), get_ngrams(s2_norm))

\* calculate_similarity of the import scripts
calculate_similarity(s1, s2) ==
    SimilarityOfNormalized(normalize_name(s1), normalize_name(s2))

\* the weighted average, boosted when both parts match well
Boost(client_score, project_score) ==
    IF client_score > (7 * Scale) \div 10 /\ project_score > (7 * Scale) \div 10
    THEN Min(Scale, (((client_score * 4 + project_score * 6) \div 10) * 11) \div 10)
    ELSE (client_score * 4 + project_score * 6) \div 10

\* the combined score of one bid
combined_score(csv_client, csv_survey, db_client_name, db_project_name) ==
    Boost(calculate_similarity(csv_client, db_client_name),
          calculate_similarity(csv_survey, db_project_name))

\* the highest score above zero, or zero
MaxOf(scores) ==
    IF \E i \in 1..Len(scores) : scores[i] > 0
    THEN CHOOSE v \in Range(scores) : \A i \in 1..Len(scores) : scores[i] <= v
    ELSE 0

\* "if score > best_score": the first position that holds the highest score
FirstAt(scores, best_score) ==
    IF best_score = 0 THEN 0
    ELSE CHOOSE i \in 1..Len(scores) :
             /\ scores[i] = best_score
             /\ \A j \in 1..(i - 1) : scores[j] # best_score

\* best_match = None, best_score = 0.0
NoBest == [ match |-> 0, score |-> 0 ]

\* a loop that also takes a candidate whose score equals the best so far
LaterOf(best, project, score) ==
    IF score >= best.score THEN [ match |-> project, score |-> score ] ELSE best

\* "if combined_score > best_score: best_score = combined_score; best_match = project"
BetterOf(best, project, score) ==
    IF score > best.score THEN [ match |-> project, score |-> score ] ELSE best

RECURSIVE BestFrom(_, _, _, _)
\* "for project in all_projects", from position i with best so far
BestFrom(keys, scores, i, best) ==
    IF i > Len(scores) THEN best
    ELSE BestFrom(keys, scores, i + 1, BetterOf(best, keys[i], scores[i]))

BestOfScores(keys, scores) == BestFrom(keys, scores, 1, NoBest)

\* the loop of find_matching_project over the cache of bids
BestMatch(csv_client, csv_survey, db, all_projects) ==
    BestOfScores(all_projects,
                 [i \in 1..Len(all_projects) |->
                     combined_score(csv_client, csv_survey,
                                    ClientName(db.clients, db.projects[all_projects[i]].client),
                                    db.projects[all_projects[i]].name)])

\* import_obn_lost_bids: the tier of a score
MatchType(best_score) ==
    IF best_score >= (95 * Scale) \div 100 THEN "exact"
    ELSE IF best_score >= HIGH_CONFIDENCE_THRESHOLD THEN "high"
    ELSE IF best_score >= MEDIUM_CONFIDENCE_THRESHOLD THEN "medium"
    ELSE IF best_score >= LOW_CONFIDENCE_THRESHOLD THEN "low"
    ELSE "none"

\* import_submitted_progress: the tier of a score, no 'low' tier
MatchTypeSubmitted(best_score) ==
    IF best_score >= (95 * Scale) \div 100 THEN "exact"
    ELSE IF best_score >= HIGH_CONFIDENCE_THRESHOLD THEN "high"
    ELSE IF best_score >= MEDIUM_CONFIDENCE_THRESHOLD THEN "medium"
    ELSE "none"

Matched(best, match_type) ==
    [ match |-> best.match, score |-> best.score, match_type |-> match_type ]

WithType(best) == Matched(best, MatchType(best.score))

WithTypeSubmitted(best) == Matched(best, MatchTypeSubmitted(best.score))

\* import_obn_lost_bids.find_matching_project
find_matching_project(csv_client, csv_survey, db, all_projects) ==
    WithType(BestMatch(csv_client, csv_survey, db, all_projects))

\* import_submitted_progress.find_matching_project
find_matching_project_submitted(csv_client, csv_project, db, all_projects) ==
    WithTypeSubmitted(BestMatch(csv_client, csv_project, db, all_projects))

\* Client.objects.get_or_create(name=client_name)
GetOrCreateClientByName(rows, name) ==
    IF \E i \in 1..Len(rows) : rows[i] = name
    THEN [ clients |-> rows, pk |-> CHOOSE i \in 1..Len(rows) : rows[i] = name ]
    ELSE [ clients |-> Append(rows, name), pk |-> Len(rows) + 1 ]

\* get_or_create_client, after the scoring loop
ClientByScore(rows, name, scores) ==
    IF MaxOf(scores) >= HIGH_CONFIDENCE_THRESHOLD
    THEN [ clients |-> rows, pk |-> FirstAt(scores, MaxOf(scores)) ]
    ELSE GetOrCreateClientByName(rows, name)

\* get_or_create_client, on the cleaned name
ClientFor(rows, name) ==
    ClientByScore(rows, name,
                  [i \in 1..Len(rows) |-> calculate_similarity(name, rows[i])])

\* get_or_create_client: the table afterwards and the client's pk (0 is None)
get_or_create_client(rows, client_name) ==
    IF client_name = << >> \/ Strip(client_name) = << >>
    THEN [ clients |-> rows, pk |-> 0 ]
    ELSE ClientFor(rows, StripLeading(Strip(client_name)))

-----------------------------------------------------------------------------
(* The batch imports, one source record at a time *)

\* a source record: the columns the scripts read
SourceRow(client, survey, status, received, submitted, award, winner, country) ==
    [ Client |-> client, Survey |-> survey, Bid_Status |-> status,
      Date_Received |-> received, Date_Submitted |-> submitted,
      Date_Award |-> award, Winner |-> winner, Country |-> country,
      Node_Type |-> "Z700" ]

\* what a script reports for one record
Outcome(db, det, raised, tier, action, pk) ==
    [ db |-> db, details |-> det, raised |-> raised, tier |-> tier,
      action |-> action, pk |-> pk ]

\* the writes a failing primary write of the record meets
RowFault(fail) == IF fail THEN {"project"} ELSE {}

\* Project.objects.create(client=client, ...)
SaveNew(db, client, given, now, F) ==
    ProjectSave([db EXCEPT !.clients = client.clients],
                [given EXCEPT !.client = client.pk], now, F)

\* import_obn_lost_bids.create_new_project
create_new_project_lost(db, csv_client, csv_survey, row, now, fail) ==
    SaveNew(db, get_or_create_client(db.clients, csv_client),
            NewProject(StripLeading(csv_survey), 0, Country, "RFP", "Ongoing",
                       row.Date_Submitted, NoDate),
            now, RowFault(fail))

\* import_obn_lost_bids.update_project_to_submitted
update_project_to_submitted(db, project, bid_submitted_date, now, F) ==
    ProjectSave(db, [project EXCEPT !.status = "Submitted",
                                    !.submission_date = bid_submitted_date], now, F)

\* import_obn_lost_bids.update_project_to_lost, the save
update_project_to_lost(db, project, now, F) ==
    ProjectSave(db, [project EXCEPT !.status = "Lost", !.award_date = NoDate], now, F)

\* update_project_to_lost, the competitor: get_or_create when the winner is known
LostCompetitor(det, pk, winner) ==
    IF winner # "" THEN GetOrCreateDetail(det, "competitors", pk, winner) ELSE det

\* import_financial_data and import_project_technology; the modelled records
\* carry no node count, so import_scope_of_work writes nothing
LostDetails(det, pk, row) ==
    UpdateOrCreateDetail(
        GetOrCreateDetail(LostCompetitor(det, pk, row.Winner), "financials", pk, "P&L"),
        "project_technologies", pk, row.Node_Type)

AfterLost(r2, det, row, tier, action) ==
    IF r2.raised THEN Outcome(r2.db, det, TRUE, tier, action, r2.self.pk)
    ELSE Outcome(r2.db, LostDetails(det, r2.self.pk, row), FALSE, tier, action, r2.self.pk)

ToLost(db, det, project, row, now, F, tier, action) ==
    AfterLost(update_project_to_lost(db, project, now, F), det, row, tier, action)

AfterSubmitted(r1, det, row, now, tier, action) ==
    IF r1.raised THEN Outcome(r1.db, det, TRUE, tier, action, r1.self.pk)
    ELSE ToLost(r1.db, det, r1.self, row, now, {}, tier, action)

\* process_row, "Update status flow: Ongoing -> Submitted -> Lost" and the
\* dependent rows; the failing write is the first write of the bid's row
StatusFlow(db, det, project, row, now, fail, tier, action) ==
    IF project.status = "Ongoing"
    THEN AfterSubmitted(update_project_to_submitted(db, project, row.Date_Submitted, now,
                                                    RowFault(fail)),
                        det, row, now, tier, action)
    ELSE ToLost(db, det, project, row, now, RowFault(fail), tier, action)

AfterCreateLost(created, det, row, now, tier) ==
    IF created.raised THEN Outcome(created.db, det, TRUE, tier, "created", 0)
    ELSE StatusFlow(created.db, det, created.self, row, now, FALSE, tier, "created")

\* process_row, "Handle based on match type"
HandleMatchLost(db, det, row, csv_client_clean, csv_survey_clean, m, now, fail) ==
    IF m.match_type \in {"exact", "high"}
    THEN StatusFlow(db, det, db.projects[m.match], row, now, fail, m.match_type, "matched")
    ELSE IF m.match_type = "medium"
    THEN Outcome(db, det, FALSE, m.match_type, "ambiguous", m.match)
    ELSE AfterCreateLost(create_new_project_lost(db, csv_client_clean, csv_survey_clean,
                                                 row, now, fail),
                         det, row, now, m.match_type)

ProcessCleanedLost(db, det, row, csv_client_clean, csv_survey_clean, all_projects, now, fail) ==
    HandleMatchLost(db, det, row, csv_client_clean, csv_survey_clean,
                    find_matching_project(csv_client_clean, csv_survey_clean, db,
                                          all_projects),
                    now, fail)

\* import_obn_lost_bids.process_row
process_row_lost(db, det, row, all_projects, now, fail) ==
    IF Strip(row.Client) = << >> \/ Strip(row.Survey) = << >>
    THEN Outcome(db, det, FALSE, "none", "skipped", 0)
    ELSE ProcessCleanedLost(db, det, row, StripLeading(Strip(row.Client)),
                            StripLeading(Strip(row.Survey)), all_projects, now, fail)

\* the fields import_submitted_progress sets by QuerySet.update on a new bid
WithStatusAndDate(project, row) ==
    [project EXCEPT !.status = row.Bid_Status,
                    !.submission_date = IF row.Date_Submitted # NoDate
                                        THEN row.Date_Submitted ELSE @]

\* create_new_project, step 2
QuerySetUpdate(res, row) ==
    IF res.raised THEN res
    ELSE [ db |-> [res.db EXCEPT !.projects[res.self.pk] = WithStatusAndDate(@, row)],
           self |-> WithStatusAndDate(res.self, row), raised |-> FALSE ]

\* import_submitted_progress.create_new_project: create as Ongoing, then set the
\* status and the submission date by QuerySet.update
create_new_project_submitted(db, row, now, fail) ==
    QuerySetUpdate(SaveNew(db, get_or_create_client(db.clients, Strip(row.Client)),
                           NewProject(Strip(row.Survey), 0, Country, "BQ", "Ongoing",
                                      row.Date_Received, NoDate),
                           now, RowFault(fail)),
                   row)

\* update_project: the row with the fields that are missing or differ set
WithUpdateFields(project, row) ==
    [project EXCEPT
        !.date_received = IF row.Date_Received # NoDate /\ @ = NoDate
                          THEN row.Date_Received ELSE @,
        !.submission_date = IF row.Date_Submitted # NoDate /\ @ = NoDate
                            THEN row.Date_Submitted ELSE @,
        !.status = row.Bid_Status]

ApplyUpdate(db, project, updated, fail) ==
    IF updated = project THEN [ db |-> db, updated |-> FALSE, raised |-> FALSE ]
    ELSE IF fail THEN [ db |-> db, updated |-> FALSE, raised |-> TRUE ]
    ELSE [ db |-> [db EXCEPT !.projects[project.pk] = updated], updated |-> TRUE,
           raised |-> FALSE ]

\* import_submitted_progress.update_project: QuerySet.update
update_project(db, project, row, fail) ==
    ApplyUpdate(db, project, WithUpdateFields(project, row), fail)

\* create_or_update_technology and create_competitor_if_lost; the modelled
\* records carry no depth or node count, so no scope of work is written
SubmittedDetails(det, project, row) ==
    IF project.status = "Lost" /\ row.Winner # ""
    THEN GetOrCreateDetail(
             GetOrCreateDetail(det, "project_technologies", project.pk, row.Node_Type),
             "competitors", project.pk, row.Winner)
    ELSE GetOrCreateDetail(det, "project_technologies", project.pk, row.Node_Type)

AfterUpdate(upd, det, pk, row, tier) ==
    IF upd.raised THEN Outcome(upd.db, det, TRUE, tier, "updated", pk)
    ELSE Outcome(upd.db, SubmittedDetails(det, upd.db.projects[pk], row), FALSE, tier,
                 IF upd.updated THEN "updated" ELSE "matched", pk)

AfterCreateSubmitted(created, det, row, tier) ==
    IF created.raised THEN Outcome(created.db, det, TRUE, tier, "created", 0)
    ELSE Outcome(created.db, SubmittedDetails(det, created.self, row), FALSE, tier,
                 "created", created.self.pk)

HandleMatchSubmitted(db, det, row, m, now, fail) ==
    IF m.match_type \in {"exact", "high"}
    THEN AfterUpdate(update_project(db, db.projects[m.match], row, fail), det, m.match,
                     row, m.match_type)
    ELSE AfterCreateSubmitted(create_new_project_submitted(db, row, now, fail), det, row,
                              m.match_type)

\* import_submitted_progress.process_row
process_row_submitted(db, det, row, all_projects, now, fail) ==
    IF Strip(row.Client) = << >> \/ Strip(row.Survey) = << >>
    THEN Outcome(db, det, FALSE, "none", "skipped", 0)
    ELSE HandleMatchSubmitted(db, det, row,
                              find_matching_project_submitted(Strip(row.Client),
                                                              Strip(row.Survey), db,
                                                              all_projects),
                              now, fail)

\* _import_row, step 6: the contract of a Won bid
ObnContract(r2, det) ==
    Outcome([r2.db EXCEPT !.contracts = GetOrCreateContract(@, r2.self.pk)], det, FALSE,
            "none", "created", r2.self.pk)

\* _import_row, step 5: Won when the record has an award date
ObnWon(r1, det, row, now) ==
    IF row.Date_Award # NoDate
    THEN ObnContract(ProjectSave(r1.db, [r1.self EXCEPT !.status = "Won",
                                                        !.award_date = row.Date_Award],
                                 now, {}),
                     det)
    ELSE Outcome(r1.db, det, FALSE, "none", "created", r1.self.pk)

\* _import_row, step 4: Submitted when there is a submission date
ObnSubmitted(r0, det, submission_date, row, now) ==
    ObnWon(IF submission_date # NoDate
           THEN ProjectSave(r0.db, [r0.self EXCEPT !.status = "Submitted",
                                                   !.submission_date = submission_date],
                            now, {})
           ELSE r0,
           det, row, now)

\* _import_row inside transaction.atomic: when the create raises, nothing of
\* the record is kept
ObnAfterCreate(db, det, r0, row, now) ==
    IF r0.raised THEN Outcome(db, det, TRUE, "none", "error", 0)
    ELSE ObnSubmitted(r0, CreateDetail(det, "project_technologies", r0.self.pk, "OBN"),
                      IF row.Date_Submitted # NoDate THEN row.Date_Submitted
                      ELSE row.Date_Received,
                      row, now)

\* import_obn_data.Command._import_row
import_row_obn_data(db, det, row, now, fail) ==
    IF Strip(row.Client) = << >> \/ Strip(row.Survey) = << >> \/ row.Country = << >>
    THEN Outcome(db, det, TRUE, "none", "error", 0)
    ELSE ObnAfterCreate(db, det,
                        SaveNew(db, GetOrCreateClientByName(db.clients, Strip(row.Client)),
                                NewProject(Strip(row.Survey), 0, row.Country, "RFP",
                                           "Ongoing", row.Date_Received, NoDate),
                                now, RowFault(fail)),
                        row, now)

CreateLostAfterCreate(db, det, r0) ==
    IF r0.raised THEN Outcome(db, det, TRUE, "none", "error", 0)
    ELSE Outcome(r0.db, CreateDetail(det, "project_technologies", r0.self.pk, "OBN"),
                 FALSE, "none", "created", r0.self.pk)

\* import_obn_create_lost.Command._import_row, inside transaction.atomic; a
\* record with an unknown country is skipped
import_row_create_lost(db, det, row, now, fail) ==
    IF Strip(row.Client) = << >> \/ Strip(row.Survey) = << >>
    THEN Outcome(db, det, TRUE, "none", "error", 0)
    ELSE IF row.Country = << >>
    THEN Outcome(db, det, FALSE, "none", "skipped", 0)
    ELSE CreateLostAfterCreate(db, det,
             SaveNew(db, GetOrCreateClientByName(db.clients, Strip(row.Client)),
                     NewProject(Strip(row.Survey), 0, row.Country, "RFP", "Ongoing",
                                row.Date_Received, NoDate),
                     now, RowFault(fail)))

-----------------------------------------------------------------------------
(* A batch import run *)

\* the counters of a run's summary; a script keeps only some of them
NoStats == [ created |-> 0, matched |-> 0, updated |-> 0, skipped |-> 0,
             ambiguous |-> 0, errors |-> 0 ]

Count(stats, action) ==
    CASE action = "created"   -> [stats EXCEPT !.created = @ + 1]
      [] action = "matched"   -> [stats EXCEPT !.matched = @ + 1]
      [] action = "updated"   -> [stats EXCEPT !.updated = @ + 1]
      [] action = "skipped"   -> [stats EXCEPT !.skipped = @ + 1]
      [] action = "ambiguous" -> [stats EXCEPT !.ambiguous = @ + 1]
      [] action = "error"     -> [stats EXCEPT !.errors = @ + 1]

\* a client cell that holds nothing but the footnote mark
Stars == <<"*">>

OtherSurvey == <<"x">>

CompetitorCode == "PXGEO"

Scripts == {"import_obn_data", "import_obn_create_lost", "import_obn_lost_bids",
            "import_submitted_progress"}

\* the records a source file of each script can hold
SourceRows(script) ==
    CASE script = "import_obn_lost_bids" ->
           { SourceRow(c, s, "Lost", NoDate, d, NoDate, CompetitorCode, Country) :
                 c \in {ClientText, Stars}, s \in {SurveyName, OtherSurvey},
                 d \in {NoDate, CallerDate} }
      [] script = "import_submitted_progress" ->
           { SourceRow(c, s, st, CallerDate, d, NoDate, "", Country) :
                 c \in {ClientText, Stars}, s \in {SurveyName, OtherSurvey},
                 st \in {"Submitted", "Won"}, d \in {NoDate, CallerDate} }
      [] script = "import_obn_data" ->
           { SourceRow(ClientText, s, "", r, CallerDate, a, "", co) :
                 s \in {SurveyName, OtherSurvey}, r \in {NoDate, CallerDate},
                 a \in {NoDate, CallerDate}, co \in {Country, << >>} }
           \cup { SourceRow(ClientText, SurveyName, "", NoDate, NoDate, NoDate, "", Country) }
      [] script = "import_obn_create_lost" ->
           { SourceRow(ClientText, s, "", r, NoDate, NoDate, "", co) :
                 s \in {SurveyName, OtherSurvey}, r \in {NoDate, CallerDate},
                 co \in {Country, << >>} }

\* source files of one record up to MaxRows records
SourceFiles(script) ==
    UNION { [1..n -> SourceRows(script)] : n \in 1..MaxRows }

\* list(Project.objects.all()): the primary keys in table order
AllProjects(rows) == [i \in 1..Len(rows) |-> i]

\* a bid entered before the run, through the application
SeedBid(status) ==
    LET created == ProjectSave([EmptyDB EXCEPT !.clients = << ClientText >>],
                               NewProject(SurveyName, 1, Country, "BQ", "Ongoing",
                                          CallerDate, NoDate), 1, {})
        submitted == ProjectSave(created.db, [created.self EXCEPT !.status = "Submitted"],
                                 1, {})
        lost == ProjectSave(submitted.db, [submitted.self EXCEPT !.status = "Lost"], 1, {})
    IN  IF status = "Ongoing" THEN created.db
        ELSE IF status = "Submitted" THEN submitted.db
        ELSE lost.db

\* the state before a run: the database db, nothing in progress
StartWith(db) ==
    /\ today = 1
    /\ clients = db.clients
    /\ projects = db.projects
    /\ contracts = db.contracts
    /\ snapshots = db.snapshots
    /\ bid_history = db.bid_history
    /\ status_history = db.status_history
    /\ changelog = db.changelog
    /\ details = << >>
    /\ opsLeft = 0
    /\ faultsLeft = 0
    /\ last = NoCall
    /\ run = NoRun

\* a script is started on a source file; failAt is the record whose primary
\* write the store fails (0: none)
StartRun ==
    /\ run.script = "none"
    /\ \E script \in Scripts :
       \E rows \in SourceFiles(script), failAt \in 0..MaxRows :
          /\ failAt <= Len(rows)
          /\ run' = [ script |-> script, rows |-> rows, i |-> 1, failAt |-> failAt,
                      all_projects |-> AllProjects(projects), stats |-> NoStats,
                      state |-> "running", log |-> << >> ]
    /\ UNCHANGED <<today, clients, projects, contracts, snapshots, bid_history,
                   status_history, changelog, details, opsLeft, faultsLeft, last>>

\* the entry of the run's log for one record
LogEntry(out) ==
    [ tier |-> out.tier, action |-> out.action, pk |-> out.pk, raised |-> out.raised ]

\* a loop body inside try / transaction.atomic / except: the record's error is
\* counted and the loop goes on
StepCaught(out) ==
    /\ Commit(out.db)
    /\ details' = out.details
    /\ run' = [run EXCEPT !.i = @ + 1,
                          !.stats = Count(@, IF out.raised THEN "error" ELSE out.action),
                          !.log = Append(@, LogEntry(out))]

\* a loop body with no handler around it: an exception leaves main()
StepUncaught(out, all_projects) ==
    /\ Commit(out.db)
    /\ details' = out.details
    /\ run' = IF out.raised
              THEN [run EXCEPT !.state = "aborted", !.log = Append(@, LogEntry(out))]
              ELSE [run EXCEPT !.i = @ + 1,
                               !.stats = Count(@, out.action),
                               !.all_projects = all_projects,
                               !.log = Append(@, LogEntry(out))]

Running(script) ==
    /\ run.script = script
    /\ run.state = "running"
    /\ run.i <= Len(run.rows)

\* import_obn_data.Command.handle, one pass of the loop
ImportObnDataRow ==
    /\ Running("import_obn_data")
    /\ StepCaught(import_row_obn_data(DB, details, run.rows[run.i], today,
                                      run.failAt = run.i))
    /\ UNCHANGED <<today, opsLeft, faultsLeft, last>>

\* import_obn_create_lost.Command.handle, one pass of the loop
ImportObnCreateLostRow ==
    /\ Running("import_obn_create_lost")
    /\ StepCaught(import_row_create_lost(DB, details, run.rows[run.i], today,
                                         run.failAt = run.i))
    /\ UNCHANGED <<today, opsLeft, faultsLeft, last>>

\* import_obn_lost_bids.main, one pass of the loop: process_row, then the
\* cache is reloaded from the table
ImportObnLostBidsRow ==
    /\ Running("import_obn_lost_bids")
    /\ LET out == process_row_lost(DB, details, run.rows[run.i], run.all_projects,
                                   today, run.failAt = run.i)
       IN  StepUncaught(out, AllProjects(out.db.projects))
    /\ UNCHANGED <<today, opsLeft, faultsLeft, last>>

\* import_submitted_progress.main, one pass of the loop: process_row, then a
\* newly created bid is appended to the cache
ImportSubmittedProgressRow ==
    /\ Running("import_submitted_progress")
    /\ LET out == process_row_submitted(DB, details, run.rows[run.i], run.all_projects,
                                        today, run.failAt = run.i)
       IN  StepUncaught(out, IF out.action = "created"
                             THEN Append(run.all_projects, out.pk)
                             ELSE run.all_projects)
    /\ UNCHANGED <<today, opsLeft, faultsLeft, last>>

\* after the last record the script prints its summary
FinishRun ==
    /\ run.script \in Scripts
    /\ run.state = "running"
    /\ run.i > Len(run.rows)
    /\ run' = [run EXCEPT !.state = "done"]
    /\ UNCHANGED <<today, clients, projects, contracts, snapshots, bid_history,
                   status_history, changelog, details, opsLeft, faultsLeft, last>>

\* a run of one import script, on an empty database or on one that holds a bid
InitRecon ==
    \E db \in {[EmptyDB EXCEPT !.clients = << ClientText >>], SeedBid("Ongoing")} :
        StartWith(db)

NextRecon ==
    \/ StartRun
    \/ ImportObnDataRow
    \/ ImportObnCreateLostRow
    \/ ImportObnLostBidsRow
    \/ ImportSubmittedProgressRow
    \/ FinishRun

SpecRecon == InitRecon /\ [][NextRecon]_vars

-----------------------------------------------------------------------------
(* diagnose_obn_import: a dry run, then a live run over the same records *)

\* --threshold, the default
DEFAULT_THRESHOLD == 300000

\* diagnose_obn_import.normalize_name
diagnose_normalize_name(name) == Lower(JoinSpace(Split(name)))

\* diagnose_obn_import.calculate_similarity, on the two normalized names
DiagnoseSimilarityOf(a, b) ==
    IF a = << >> \/ b = << >> THEN 0
    ELSE IF a = b THEN Scale
    ELSE IF Contains(a, b) \/ Contains(b, a) THEN (8 * Scale) \div 10
    ELSE (Scale * Cardinality(Range(Split(a)) \cap Range(Split(b))))
             \div Cardinality(Range(Split(a)) \cup Range(Split(b)))

\* diagnose_obn_import.calculate_similarity
diagnose_calculate_similarity(s1, s2) ==
    DiagnoseSimilarityOf(diagnose_normalize_name(s1), diagnose_normalize_name(s2))

\* diagnose_obn_import.find_best_project over the bids loaded at the start
find_best_project(csv_client, csv_survey, cl, all_projects) ==
    BestOfScores([i \in 1..Len(all_projects) |-> i],
                 [i \in 1..Len(all_projects) |->
                     (diagnose_calculate_similarity(csv_client,
                          ClientName(cl, all_projects[i].client)) * 4
                      + diagnose_calculate_similarity(csv_survey, all_projects[i].name) * 6)
                     \div 10])

\* map_competitor_choice: the code of a known winner, None otherwise
map_competitor_choice(winner) == IF winner = CompetitorCode THEN winner ELSE None

\* one line of the planned changes of a record
Change(what, value) == [ change |-> what, value |-> value ]

\* the bid in hand, the tables and the planned changes so far
Progress(db, det, project, changes) ==
    [ db |-> db, details |-> det, project |-> project, changes |-> changes ]

\* a save of the live run; an exception is caught by the record's handler
Saved(res, det, changes) == Progress(res.db, det, res.self, changes)

\* handle, "1) Ensure Submitted status and submission_date"
EnsureSubmitted(db, det, project, bid_submitted_date, dry_run, now) ==
    IF project.status # "Submitted"
    THEN IF dry_run
         THEN Progress(db, det, project, << Change("status -> Submitted", bid_submitted_date) >>)
         ELSE Saved(ProjectSave(db, [project EXCEPT
                                        !.submission_date = IF bid_submitted_date # NoDate
                                                            THEN bid_submitted_date ELSE @,
                                        !.status = "Submitted"], now, {}),
                    det, << Change("status -> Submitted", bid_submitted_date) >>)
    ELSE IF bid_submitted_date # NoDate /\ project.submission_date # bid_submitted_date
    THEN IF dry_run
         THEN Progress(db, det, project,
                       << Change("submission_date updated", bid_submitted_date) >>)
         ELSE Saved(ProjectSave(db, [project EXCEPT !.submission_date = bid_submitted_date],
                                now, {}),
                    det, << Change("submission_date updated", bid_submitted_date) >>)
    ELSE Progress(db, det, project, << >>)

\* handle, "2) If not lost, set to Lost and add competitor (winner)"
EnsureLost(s, comp_code, dry_run, now) ==
    IF s.project.status # "Lost"
    THEN IF comp_code # None
         THEN IF dry_run
              THEN Progress(s.db, s.details, s.project,
                            Append(s.changes, Change("status -> Lost, competitor", comp_code)))
              ELSE Saved(ProjectSave(s.db, [s.project EXCEPT !.status = "Lost"], now, {}),
                         CreateDetail(s.details, "competitors", s.project.pk, comp_code),
                         Append(s.changes, Change("status -> Lost, competitor", comp_code)))
         ELSE IF dry_run
              THEN Progress(s.db, s.details, s.project,
                            Append(s.changes, Change("status -> Lost", None)))
              ELSE Saved(ProjectSave(s.db, [s.project EXCEPT !.status = "Lost"], now, {}),
                         s.details, Append(s.changes, Change("status -> Lost", None)))
    ELSE Progress(s.db, s.details, s.project,
                  Append(s.changes, Change("already Lost; competitor skipped", None)))

\* handle, "4) Technology": the modelled records name a node type and carry no
\* financial figures and no node count, so steps 3 and 5 plan nothing
EnsureTechnology(s, obn_system, dry_run) ==
    Progress(s.db,
             IF dry_run THEN s.details
             ELSE UpdateOrCreateDetail(s.details, "project_technologies", s.project.pk,
                                       obn_system),
             s.project, Append(s.changes, Change("Technology obn_system", obn_system)))

\* what the command prints for one record
Report(matched, pk, changes) == [ matched |-> matched, pk |-> pk, changes |-> changes ]

\* the loop body for a record that matched the bid at position pos of the cache
DiagnoseMatched(db, det, all_projects, pos, row, dry_run, now) ==
    EnsureTechnology(
        EnsureLost(EnsureSubmitted(db, det, all_projects[pos], row.Date_Submitted,
                                   dry_run, now),
                   map_competitor_choice(row.Winner), dry_run, now),
        row.Node_Type, dry_run)

\* the in-memory bids after a record: the matched one carries what was assigned
Remember(all_projects, pos, s) == [all_projects EXCEPT ![pos] = s.project]

DiagnoseOutcome(all_projects, pos, s) ==
    [ db |-> s.db, details |-> s.details, all_projects |-> Remember(all_projects, pos, s),
      report |-> Report(TRUE, s.project.pk, s.changes) ]

DiagnoseBest(db, det, all_projects, best, row, threshold, dry_run, now) ==
    IF best.match = 0 \/ best.score < threshold
    THEN [ db |-> db, details |-> det, all_projects |-> all_projects,
           report |-> Report(FALSE, 0, << >>) ]
    ELSE DiagnoseOutcome(all_projects, best.match,
                         DiagnoseMatched(db, det, all_projects, best.match, row, dry_run, now))

\* diagnose_obn_import.Command.handle, one pass of the loop
diagnose_row(db, det, all_projects, row, threshold, dry_run, now) ==
    DiagnoseBest(db, det, all_projects,
                 find_best_project(Strip(row.Client), Strip(row.Survey), db.clients,
                                   all_projects),
                 row, threshold, dry_run, now)

\* the records of a source file of diagnose_obn_import
DiagnoseRows ==
    { SourceRow(n[1], n[2], "", NoDate, d, NoDate, w, Country) :
          n \in {<<ClientText, SurveyName>>, <<Stars, OtherSurvey>>},
          d \in {NoDate, CallerDate}, w \in {CompetitorCode, ""} }

DiagnoseFiles == UNION { [1..n -> DiagnoseRows] : n \in 1..MaxRows }

\* manage.py diagnose_obn_import file --dry-run; the command stops at once when
\* the database holds no bid
StartDiagnose ==
    /\ run.script = "none"
    /\ projects # << >>
    /\ \E rows \in DiagnoseFiles :
          run' = [ script |-> "diagnose_obn_import", rows |-> rows, i |-> 1,
                   dry_run |-> TRUE, all_projects |-> projects, state |-> "running",
                   initial |-> [ db |-> DB, details |-> details ],
                   dry |-> << >>, report |-> << >> ]
    /\ UNCHANGED <<today, clients, projects, contracts, snapshots, bid_history,
                   status_history, changelog, details, opsLeft, faultsLeft, last>>

\* one record of the run in progress
DiagnoseRow ==
    /\ run.script = "diagnose_obn_import"
    /\ run.state = "running"
    /\ run.i <= Len(run.rows)
    /\ LET out == diagnose_row(DB, details, run.all_projects, run.rows[run.i],
                               DEFAULT_THRESHOLD, run.dry_run, today)
       IN  /\ Commit(out.db)
           /\ details' = out.details
           /\ run' = [run EXCEPT !.i = @ + 1, !.all_projects = out.all_projects,
                                 !.report = Append(@, out.report)]
    /\ UNCHANGED <<today, opsLeft, faultsLeft, last>>

\* the summary after the last record
FinishDiagnose ==
    /\ run.script = "diagnose_obn_import"
    /\ run.state = "running"
    /\ run.i > Len(run.rows)
    /\ run' = [run EXCEPT !.state = "done"]
    /\ UNCHANGED <<today, clients, projects, contracts, snapshots, bid_history,
                   status_history, changelog, details, opsLeft, faultsLeft, last>>

\* after the dry run, the command is run on the same file without --dry-run
StartLive ==
    /\ run.script = "diagnose_obn_import"
    /\ run.state = "done"
    /\ run.dry_run
    /\ projects # << >>
    /\ run' = [run EXCEPT !.i = 1, !.dry_run = FALSE, !.all_projects = projects,
                          !.state = "running", !.dry = run.report, !.report = << >>]
    /\ UNCHANGED <<today, clients, projects, contracts, snapshots, bid_history,
                   status_history, changelog, details, opsLeft, faultsLeft, last>>

\* the command on a database that holds one bid, in any state of its lifecycle
InitDiagnose ==
    \E status \in {"Ongoing", "Submitted", "Lost"} : StartWith(SeedBid(status))

NextDiagnose ==
    \/ StartDiagnose
    \/ DiagnoseRow
    \/ FinishDiagnose
    \/ StartLive

SpecDiagnose == InitDiagnose /\ [][NextDiagnose]_vars

-----------------------------------------------------------------------------
(* What the last call did *)

\* the calls that ran Project.save on one bid
SaveCalls == {"create", "save", "edit_project", "save_model", "update_contract"}

\* the save of the last call wrote the bid's row
SaveRan == last.op \in SaveCalls /\ ~last.raised

Row == projects[last.pk]

PrevRow == last.before.projects[last.pk]

PrevStatus == IF last.op = "create" THEN None ELSE PrevRow.status

PrevBid == IF last.op = "create" THEN None ELSE PrevRow.bid_type

ContractCount(rows, pk) == Len(RowsOf(rows, pk))

Added(table, before, pk, change_type) ==
    Len(RowsOfType(table, pk, change_type)) - Len(RowsOfType(before, pk, change_type))

-----------------------------------------------------------------------------
(* Milestone dates and the contract row *)

\* C1: when Project.save makes a bid Submitted (from any other status, or at
\* creation) and the instance has no submission date, the stored submission
\* date is the current date; a save that leaves the status at Submitted
\* stores the submission date the instance already had.
C1_SubmissionDateStamped ==
    (SaveRan /\ last.given.status = "Submitted") =>
        /\ (PrevStatus # "Submitted" /\ last.given.submission_date = NoDate)
              => Row.submission_date = Date(last.now)
        /\ (PrevStatus = "Submitted" /\ last.given.submission_date # NoDate)
              => Row.submission_date = last.given.submission_date

\* a bid submitted on an earlier day is saved again, still Submitted
C1_Witness ==
    /\ last.op = "save" /\ ~last.raised
    /\ PrevStatus = "Submitted" /\ Row.status = "Submitted"
    /\ PrevRow.submission_date = Date(1) /\ last.now = 2
    /\ last.given.submission_date = PrevRow.submission_date
    /\ Row.submission_date = Date(1)

\* C2: after a Project.save that moves a bid from Submitted to Won the award
\* date is set (to the current date if the instance had none) and the bid has
\* exactly one Contract row; no bid ever has two, and a save of a bid that has
\* one Contract row leaves it with one.
C2_OneContractAfterWon ==
    /\ \A pk \in 1..Len(projects) : ContractCount(contracts, pk) <= 1
    /\ (SaveRan /\ PrevStatus = "Submitted" /\ last.given.status = "Won") =>
          /\ Row.award_date = IF last.given.award_date = NoDate THEN Date(last.now)
                              ELSE last.given.award_date
          /\ ContractCount(contracts, last.pk) = 1
    /\ (SaveRan /\ last.op # "create" /\ ContractCount(last.before.contracts, last.pk) = 1)
          => ContractCount(contracts, last.pk) = 1

\* a bid that went Submitted -> Won is saved again and stays Won
C2_Witness ==
    /\ last.op = "save" /\ ~last.raised
    /\ PrevStatus = "Won" /\ Row.status = "Won"
    /\ \E i \in 1..Len(status_history) :
          /\ status_history[i].project = last.pk
          /\ status_history[i].previous_status = "Submitted"
          /\ status_history[i].new_status = "Won"
    /\ Row.award_date # NoDate
    /\ ContractCount(contracts, last.pk) = 1

\* C5: every bid whose status is Won has a Contract row.
C5_WonHasContract ==
    \A pk \in 1..Len(projects) :
        projects[pk].status = "Won" => ContractCount(contracts, pk) >= 1

\* C6: Project.save never overwrites a milestone date: a submission, award or
\* lost date that is non-null on the instance when save is called is the
\* stored value after the save, whatever the transition.
C6_DatesNotOverwritten ==
    SaveRan =>
        /\ last.given.submission_date # NoDate
              => Row.submission_date = last.given.submission_date
        /\ last.given.award_date # NoDate => Row.award_date = last.given.award_date
        /\ last.given.lost_date # NoDate => Row.lost_date = last.given.lost_date

\* a bid goes Submitted -> Won with an award date supplied by the caller
C6_Witness ==
    /\ last.op = "save" /\ ~last.raised
    /\ PrevStatus = "Submitted" /\ Row.status = "Won"
    /\ last.given.award_date = CallerDate /\ Date(last.now) # CallerDate
    /\ Row.award_date = CallerDate

-----------------------------------------------------------------------------
(* The audit trail *)

\* C3: every change of a bid's status or bid type, through Project.save, the
\* edit_project view or the admin save_model, adds exactly one Snapshot row
\* and exactly one ChangeLog row for that change.
C3_OneSnapshotOneChangeLog ==
    (last.op \in {"save", "edit_project", "save_model"} /\ ~last.raised) =>
        /\ PrevRow.status # Row.status =>
              /\ Added(snapshots, last.before.snapshots, last.pk, "STATUS") = 1
              /\ Added(changelog, last.before.changelog, last.pk, "STATUS") = 1
        /\ PrevRow.bid_type # Row.bid_type =>
              /\ Added(snapshots, last.before.snapshots, last.pk, "BID") = 1
              /\ Added(changelog, last.before.changelog, last.pk, "BID") = 1

\* C4: when audit writes fail during Project.save, the call does not raise
\* and the bids are stored exactly as the same call stores them on a working
\* audit store.
C4_AuditFailureKeepsTransition ==
    (last.op \in {"create", "save"} /\ last.F # {} /\ last.F \subseteq AuditWrites) =>
        /\ ~last.raised
        /\ projects = ProjectSave(last.before, last.given, last.now, {}).db.projects

\* a status change is saved while the whole audit store is down
C4_Witness ==
    /\ last.op = "save" /\ last.F = AuditWrites /\ ~last.raised
    /\ PrevRow.status = "Ongoing" /\ Row.status = "Submitted"
    /\ Row.submission_date = Date(last.now)
    /\ snapshots = last.before.snapshots
    /\ changelog = last.before.changelog

\* C7: a save that has stored a new status has stored its milestone date, and
\* a save that has stored a transition into Won has left a Contract row for
\* the bid, also when the creation of the Contract row fails.
C7_TransitionIsOneUnit ==
    (SaveRan /\ PrevStatus # Row.status) =>
        /\ (Row.status = "Submitted") => Row.submission_date # NoDate
        /\ (PrevStatus = "Submitted" /\ Row.status = "Won") => Row.award_date # NoDate
        /\ (PrevStatus = "Submitted" /\ Row.status = "Lost") => Row.lost_date # NoDate
        /\ (Row.status = "Won") => ContractCount(contracts, last.pk) >= 1

\* the records of the run's log that ended in an exception
RaisedRecords == { i \in 1..Len(run.log) : run.log[i].raised }

\* an earlier record j of the run with the client and survey of record k, for
\* which the run created a bid
CreatedEarlier(j, k) ==
    /\ j < k
    /\ run.rows[j].Client = run.rows[k].Client
    /\ run.rows[j].Survey = run.rows[k].Survey
    /\ run.log[j].action = "created"

\* C8: in a reconciliation run on a working store, a record that has the client
\* and survey name of an earlier record for which the run created a bid resolves
\* to that bid with tier 'exact' and updates it, so that no second bid is
\* created for the pair.
C8_SameRecordResolvesExact ==
    (run.script \in {"import_obn_lost_bids", "import_submitted_progress"}
        /\ run.failAt = 0) =>
        \A j \in 1..Len(run.log), k \in 1..Len(run.log) :
            CreatedEarlier(j, k) =>
                /\ run.log[k].tier = "exact"
                /\ run.log[k].pk = run.log[j].pk
                /\ run.log[k].action \in {"matched", "updated"}

\* C9: in every batch import, when the store fails the primary write of record
\* k, the run does not abort: the error is counted once for that record, the
\* remaining records are processed and the run ends with its summary.
C9_ErrorFatalForRecordOnly ==
    (run.script \in Scripts /\ run.failAt > 0 /\ Len(run.log) >= run.failAt
        /\ run.log[run.failAt].raised) =>
        /\ run.state # "aborted"
        /\ run.stats.errors = Cardinality(RaisedRecords)
        /\ run.state = "done" => Len(run.log) = Len(run.rows)

\* C10: the dry run of diagnose_obn_import changes no table, and reports for
\* every record the match decision and the planned changes that the live run
\* over the same records and the same initial database reports.
C10_DryRunReportsLiveRun ==
    run.script = "diagnose_obn_import" =>
        /\ run.dry_run => (DB = run.initial.db /\ details = run.initial.details)
        /\ ~run.dry_run =>
               \A i \in 1..Len(run.report) : run.report[i] = run.dry[i]

-----------------------------------------------------------------------------
(* Financial.save: the profitability waterfall *)

\* A stored DecimalField of two places is the tuple <<h>> of its hundredths, a
\* null one is the empty tuple.  A Decimal inside save() is the fraction
\* <<n, d>> in lowest terms with d > 0.

Null == << >>

Abs(n) == IF n < 0 THEN -n ELSE n

RECURSIVE GCD(_, _)
GCD(a, b) == IF b = 0 THEN a ELSE GCD(b, a % b)

\* the fraction n/d in lowest terms
Frac(n, d) ==
    IF n = 0 THEN <<0, 1>>
    ELSE IF d < 0 THEN <<(-n) \div GCD(Abs(n), Abs(d)), (-d) \div GCD(Abs(n), Abs(d))>>
    ELSE <<n \div GCD(Abs(n), Abs(d)), d \div GCD(Abs(n), Abs(d))>>

\* Decimal("0.01")
DECIMAL_2 == 100

\* Decimal("21000.00")
OVERHEAD_DAYRATE_DEFAULT == <<2100000>>

\* Financial._to_decimal
to_decimal(value) == IF value = Null THEN Null ELSE Frac(value[1], DECIMAL_2)

\* x - y
Minus(x, y) == Frac(x[1] * y[2] - y[1] * x[2], x[2] * y[2])

\* x * y, cancelling across before multiplying
TimesReduced(a, b) == Frac(a[1] * b[1], a[2] * b[2])

Times(x, y) == TimesReduced(Frac(x[1], y[2]), Frac(y[1], x[2]))

\* x / y, y not zero
Over(x, y) == Times(x, Frac(y[2], y[1]))

IsZero(x) == x[1] = 0

\* the hundredths of a non-negative fraction below one, ROUND_HALF_UP
HalfUp(rem, d) == (2 * rem * DECIMAL_2 + d) \div (2 * d)

\* Decimal.quantize(DECIMAL_2, rounding=ROUND_HALF_UP): ties go away from zero
QuantizeAbs(n, d) == (n \div d) * DECIMAL_2 + HalfUp(n % d, d)

\* Financial._quantize_money and Financial._quantize_pct
quantize(value) ==
    IF value = Null THEN Null
    ELSE IF value[1] < 0 THEN << -QuantizeAbs(-value[1], value[2]) >>
    ELSE << QuantizeAbs(value[1], value[2]) >>

\* a Financial instance: the inputs have values, the derived fields are null
NewFinancial(cost, gm, rate, duration, depreciation, taxes) ==
    [ total_direct_cost |-> cost, gm |-> gm, overhead_dayrate |-> rate,
      duration_with_dt |-> duration, depreciation |-> depreciation, taxes |-> taxes,
      total_revenue |-> Null, gp |-> Null, total_overhead |-> Null,
      ebitda_amount |-> Null, ebitda_pct |-> Null, ebit_amount |-> Null,
      ebit_pct |-> Null, net_amount |-> Null, net_pct |-> Null,
      ebit_day |-> Null, net_day |-> Null ]

\* overhead_rate = self._to_decimal(self.overhead_dayrate) or OVERHEAD_DAYRATE_DEFAULT:
\* a Decimal that is zero is false
OverheadRate(rate) ==
    IF rate = Null THEN to_decimal(OVERHEAD_DAYRATE_DEFAULT)
    ELSE IF IsZero(to_decimal(rate)) THEN to_decimal(OVERHEAD_DAYRATE_DEFAULT)
    ELSE to_decimal(rate)

\* gm_frac = gm_pct / Decimal("100")
GmFrac(gm_pct) == IF gm_pct = Null THEN Null ELSE Over(gm_pct, <<100, 1>>)

Denom(gm_frac) == Minus(<<1, 1>>, gm_frac)

\* total_revenue = cost / (1 - gm_frac)
TotalRevenue(cost, gm_frac) ==
    IF cost = Null \/ gm_frac = Null THEN Null
    ELSE IF IsZero(Denom(gm_frac)) THEN Null
    ELSE Over(cost, Denom(gm_frac))

\* gp computed although the revenue is null, as if the revenue were zero
GpOfNullRevenue(total_revenue, cost) ==
    IF cost = Null THEN Null
    ELSE IF total_revenue = Null THEN Minus(<<0, 1>>, cost)
    ELSE Minus(total_revenue, cost)

\* gp = total_revenue - cost
Gp(total_revenue, cost) ==
    IF total_revenue = Null \/ cost = Null THEN Null ELSE Minus(total_revenue, cost)

\* total_overhead = overhead_rate * duration_td
TotalOverhead(overhead_rate, duration_td) ==
    IF duration_td = Null THEN Null
    ELSE IF IsZero(duration_td) THEN Null
    ELSE Times(overhead_rate, duration_td)

\* amount - charge, or the amount itself when the charge is missing
Less(amount, charge) ==
    IF amount = Null THEN Null
    ELSE IF charge = Null THEN amount
    ELSE Minus(amount, charge)

\* (amount / total_revenue) * 100
Pct(amount, total_revenue) ==
    IF amount = Null \/ total_revenue = Null THEN Null
    ELSE IF IsZero(total_revenue) THEN Null
    ELSE Times(Over(amount, total_revenue), <<100, 1>>)

\* the per-day amount without the guard on the duration: the amount itself
\* when there is no positive duration to divide by
PerDayUnguarded(amount, duration_td) ==
    IF amount = Null THEN Null
    ELSE IF duration_td = Null THEN amount
    ELSE IF duration_td[1] <= 0 THEN amount
    ELSE Over(amount, duration_td)

\* amount / duration_td
PerDay(amount, duration_td) ==
    IF duration_td = Null THEN Null
    ELSE IF duration_td[1] <= 0 THEN Null
    ELSE IF amount = Null THEN Null
    ELSE Over(amount, duration_td)

\* the assignments at the end of save()
Derived(self, total_revenue, gp, total_overhead, ebitda_amount, ebit_amount, net_amount, duration_td) ==
    [self EXCEPT !.total_revenue = quantize(total_revenue),
                 !.gp = quantize(gp),
                 !.total_overhead = quantize(total_overhead),
                 !.ebitda_amount = quantize(ebitda_amount),
                 !.ebitda_pct = quantize(Pct(ebitda_amount, total_revenue)),
                 !.ebit_amount = quantize(ebit_amount),
                 !.ebit_pct = quantize(Pct(ebit_amount, total_revenue)),
                 !.net_amount = quantize(net_amount),
                 !.net_pct = quantize(Pct(net_amount, total_revenue)),
                 !.ebit_day = quantize(PerDay(ebit_amount, duration_td)),
                 !.net_day = quantize(PerDay(net_amount, duration_td))]

FromEbit(self, total_revenue, gp, total_overhead, ebitda_amount, ebit_amount, duration_td) ==
    Derived(self, total_revenue, gp, total_overhead, ebitda_amount, ebit_amount,
            Less(ebit_amount, to_decimal(self.taxes)), duration_td)

FromEbitda(self, total_revenue, gp, total_overhead, ebitda_amount, duration_td) ==
    FromEbit(self, total_revenue, gp, total_overhead, ebitda_amount,
             Less(ebitda_amount, to_decimal(self.depreciation)), duration_td)

FromGp(self, total_revenue, gp, total_overhead, duration_td) ==
    FromEbitda(self, total_revenue, gp, total_overhead, Less(gp, total_overhead),
               duration_td)

FromRevenue(self, cost, total_revenue, duration_td) ==
    FromGp(self, total_revenue, Gp(total_revenue, cost),
           TotalOverhead(OverheadRate(self.overhead_dayrate), duration_td), duration_td)

\* Financial.save: the instance as super().save() writes it
FinancialSave(self) ==
    FromRevenue(self, to_decimal(self.total_direct_cost),
                TotalRevenue(to_decimal(self.total_direct_cost),
                             GmFrac(to_decimal(self.gm))),
                to_decimal(self.duration_with_dt))

-----------------------------------------------------------------------------
(* The writers of the financials table *)

\* the values a caller or a form enters
Costs == {Null, <<0>>, <<10000000>>}

Margins == {Null, <<2000>>, <<3750>>, <<10000>>}

Rates == {OVERHEAD_DAYRATE_DEFAULT, <<0>>, <<150000>>}

Durations == {Null, <<0>>, <<300>>, <<1000>>}

Depreciations == {Null, <<500000>>}

TaxAmounts == {Null, <<200000>>}

FinancialInputs ==
    [ cost : Costs, gm : Margins, rate : Rates, duration : Durations,
      depreciation : Depreciations, taxes : TaxAmounts ]

\* the inputs of the form assigned to an instance
WithInputs(inst, in) ==
    [inst EXCEPT !.total_direct_cost = in.cost, !.gm = in.gm,
                 !.overhead_dayrate = in.rate, !.duration_with_dt = in.duration,
                 !.depreciation = in.depreciation, !.taxes = in.taxes]

\* Financial(project=project): the field defaults
BlankFinancial == NewFinancial(Null, Null, OVERHEAD_DAYRATE_DEFAULT, Null, Null, Null)

HasFinancial(det, pk) == HasDetail(det, "financials", pk)

\* project.financials
FinancialOf(det, pk) ==
    det[CHOOSE i \in 1..Len(det) : det[i].table = "financials" /\ det[i].project = pk].value

\* Financial.objects.get_or_create(project=project): a missing row is created
\* by Financial.save
GetOrCreateFinancial(det, pk) ==
    IF HasFinancial(det, pk) THEN det
    ELSE CreateDetail(det, "financials", pk, FinancialSave(BlankFinancial))

\* Financial.objects.filter(pk=...).update(**fields): the row is written as given
UpdateFinancial(det, pk, value) == UpdateOrCreateDetail(det, "financials", pk, value)

\* the record of a call that writes the financials table
FinancialCall(op, pk, given) == [ op |-> op, pk |-> pk, given |-> given ]

\* Financial.objects.create(project=..., inputs)
CreateFinancial ==
    /\ opsLeft > 0
    /\ \E pk \in 1..Len(projects), in \in FinancialInputs :
          /\ ~HasFinancial(details, pk)
          /\ details' = CreateDetail(details, "financials", pk,
                                     FinancialSave(WithInputs(BlankFinancial, in)))
          /\ last' = FinancialCall("create", pk, WithInputs(BlankFinancial, in))
    /\ opsLeft' = opsLeft - 1
    /\ UNCHANGED <<today, clients, projects, contracts, snapshots, bid_history,
                   status_history, changelog, faultsLeft, run>>

\* the instance the view binds the form to
FormInstance(det, pk) == IF HasFinancial(det, pk) THEN FinancialOf(det, pk) ELSE BlankFinancial

\* views.add_or_edit_financial, POST of a valid FinancialForm
AddOrEditFinancial ==
    /\ opsLeft > 0
    /\ \E pk \in 1..Len(projects), in \in FinancialInputs :
          /\ details' = UpdateFinancial(details, pk,
                            FinancialSave(WithInputs(FormInstance(details, pk), in)))
          /\ last' = FinancialCall("add_or_edit_financial", pk,
                                   WithInputs(FormInstance(details, pk), in))
    /\ opsLeft' = opsLeft - 1
    /\ UNCHANGED <<today, clients, projects, contracts, snapshots, bid_history,
                   status_history, changelog, faultsLeft, run>>

\* the P&L cells of a source record, parsed: a cell that is blank is Null
FinancialCells ==
    { \* the sheet of a bid: cost 100000, margin 20%, 10 days
      [ total_direct_cost |-> <<10000000>>, total_revenue |-> <<12500000>>,
        gp |-> <<2500000>>, gm |-> <<2000>>, total_overhead |-> <<21000000>>,
        depreciation |-> <<500000>>, ebit_amount |-> <<-19000000>>,
        ebit_pct |-> <<-15200>>, ebit_day |-> <<-1900000>>, taxes |-> <<200000>>,
        net_amount |-> <<-19200000>>, net_pct |-> <<-15360>>,
        net_day |-> <<-1920000>>, duration |-> <<1000>> ],
      \* a sheet with nothing but a revenue
      [ total_direct_cost |-> Null, total_revenue |-> <<12500000>>,
        gp |-> Null, gm |-> Null, total_overhead |-> Null,
        depreciation |-> Null, ebit_amount |-> Null,
        ebit_pct |-> Null, ebit_day |-> Null, taxes |-> Null,
        net_amount |-> Null, net_pct |-> Null,
        net_day |-> Null, duration |-> Null ],
      \* a blank sheet
      [ total_direct_cost |-> Null, total_revenue |-> Null,
        gp |-> Null, gm |-> Null, total_overhead |-> Null,
        depreciation |-> Null, ebit_amount |-> Null,
        ebit_pct |-> Null, ebit_day |-> Null, taxes |-> Null,
        net_amount |-> Null, net_pct |-> Null,
        net_day |-> Null, duration |-> Null ] }

\* one key of update_fields: a None value is removed from the dict
Keep(old, new) == IF new = Null THEN old ELSE new

\* import_obn_lost_bids.import_financial_data: the update of the non-blank cells
LostFinancialUpdate(fin, cells) ==
    [fin EXCEPT !.total_direct_cost = Keep(@, cells.total_direct_cost),
                !.total_revenue = Keep(@, cells.total_revenue),
                !.gp = Keep(@, cells.gp),
                !.gm = Keep(@, cells.gm),
                !.total_overhead = Keep(@, cells.total_overhead),
                !.depreciation = Keep(@, cells.depreciation),
                !.ebit_amount = Keep(@, cells.ebit_amount),
                !.ebit_pct = Keep(@, cells.ebit_pct),
                !.ebit_day = Keep(@, cells.ebit_day),
                !.taxes = Keep(@, cells.taxes),
                !.net_amount = Keep(@, cells.net_amount),
                !.net_pct = Keep(@, cells.net_pct),
                !.net_day = Keep(@, cells.net_day),
                !.duration_with_dt = Keep(@, cells.duration)]

\* import_obn_lost_bids.import_financial_data
import_financial_data_lost(det, pk, cells) ==
    UpdateFinancial(GetOrCreateFinancial(det, pk), pk,
                    LostFinancialUpdate(FinancialOf(GetOrCreateFinancial(det, pk), pk),
                                        cells))

\* import_obn_pricing_data.import_financial_data: every cell is written, a blank
\* one as NULL
PricingFinancialUpdate(fin, cells) ==
    [fin EXCEPT !.total_direct_cost = cells.total_direct_cost,
                !.total_revenue = cells.total_revenue,
                !.gp = cells.gp,
                !.gm = cells.gm,
                !.total_overhead = cells.total_overhead,
                !.depreciation = cells.depreciation,
                !.ebit_amount = cells.ebit_amount,
                !.ebit_pct = cells.ebit_pct,
                !.ebit_day = cells.ebit_day,
                !.taxes = cells.taxes,
                !.net_amount = cells.net_amount,
                !.net_pct = cells.net_pct,
                !.net_day = cells.net_day,
                !.duration_with_dt = cells.duration]

\* import_obn_pricing_data.import_financial_data
import_financial_data_pricing(det, pk, cells) ==
    UpdateFinancial(GetOrCreateFinancial(det, pk), pk,
                    PricingFinancialUpdate(FinancialOf(GetOrCreateFinancial(det, pk), pk),
                                           cells))

\* a record of import_obn_lost_bids reaches import_financial_data for its bid
ImportFinancialDataLost ==
    /\ opsLeft > 0
    /\ \E pk \in 1..Len(projects), cells \in FinancialCells :
          /\ details' = import_financial_data_lost(details, pk, cells)
          /\ last' = FinancialCall("import_obn_lost_bids", pk, cells)
    /\ opsLeft' = opsLeft - 1
    /\ UNCHANGED <<today, clients, projects, contracts, snapshots, bid_history,
                   status_history, changelog, faultsLeft, run>>

\* a record of import_obn_pricing_data reaches import_financial_data for its bid
ImportFinancialDataPricing ==
    /\ opsLeft > 0
    /\ \E pk \in 1..Len(projects), cells \in FinancialCells :
          /\ details' = import_financial_data_pricing(details, pk, cells)
          /\ last' = FinancialCall("import_obn_pricing_data", pk, cells)
    /\ opsLeft' = opsLeft - 1
    /\ UNCHANGED <<today, clients, projects, contracts, snapshots, bid_history,
                   status_history, changelog, faultsLeft, run>>

\* set_financial_mh_north: PROJECT_NAME, EBIT_PCT, EBIT_DAY
PROJECT_NAME == <<"M", "H", " ", "N", "o", "r", "t", "h">>

EBIT_PCT == <<1800>>

EBIT_DAY == <<11657400>>

\* Project.objects.get(name__iexact=PROJECT_NAME)
ProjectsNamed(rows, name) == {i \in 1..Len(rows) : Lower(rows[i].name) = Lower(name)}

\* scripts/set_financial_mh_north.main
SetFinancialMhNorth ==
    /\ opsLeft > 0
    /\ \E pk \in ProjectsNamed(projects, PROJECT_NAME) :
          /\ Cardinality(ProjectsNamed(projects, PROJECT_NAME)) = 1
          /\ details' = UpdateFinancial(GetOrCreateFinancial(details, pk), pk,
                            [FinancialOf(GetOrCreateFinancial(details, pk), pk)
                                 EXCEPT !.ebit_pct = EBIT_PCT, !.ebit_day = EBIT_DAY])
          /\ last' = FinancialCall("set_financial_mh_north", pk, BlankFinancial)
    /\ opsLeft' = opsLeft - 1
    /\ UNCHANGED <<today, clients, projects, contracts, snapshots, bid_history,
                   status_history, changelog, faultsLeft, run>>

\* the database before the financial writers run: the bid "MH North", no
\* financial row
MhNorthDB ==
    ProjectSave([EmptyDB EXCEPT !.clients = << ClientText >>],
                NewProject(PROJECT_NAME, 1, Country, "BQ", "Ongoing", CallerDate, NoDate),
                1, {}).db

InitFinancial ==
    /\ today = 1
    /\ clients = MhNorthDB.clients
    /\ projects = MhNorthDB.projects
    /\ contracts = MhNorthDB.contracts
    /\ snapshots = MhNorthDB.snapshots
    /\ bid_history = MhNorthDB.bid_history
    /\ status_history = MhNorthDB.status_history
    /\ changelog = MhNorthDB.changelog
    /\ details = << >>
    /\ opsLeft = MaxFinancialOps
    /\ faultsLeft = 0
    /\ last = NoCall
    /\ run = NoRun

NextFinancial ==
    \/ CreateFinancial
    \/ AddOrEditFinancial
    \/ ImportFinancialDataLost
    \/ ImportFinancialDataPricing
    \/ SetFinancialMhNorth

SpecFinancial == InitFinancial /\ [][NextFinancial]_vars

-----------------------------------------------------------------------------
(* The stored waterfall *)

\* the last call was a Financial.save of the instance last.given
FinancialSaved == last.op \in {"create", "add_or_edit_financial"}

\* the row the last call left for its bid
StoredFinancial == FinancialOf(details, last.pk)

HasValue(v) == v # Null

\* the inputs of the worked example: cost 100000, margin 20%, 10 days, the
\* default overhead rate, depreciation 5000, taxes 2000
IsExample(g) ==
    /\ g.total_direct_cost = <<10000000>> /\ g.gm = <<2000>>
    /\ g.overhead_dayrate = OVERHEAD_DAYRATE_DEFAULT /\ g.duration_with_dt = <<1000>>
    /\ g.depreciation = <<500000>> /\ g.taxes = <<200000>>

\* revenue = cost / (1 - gm/100)
StatedRevenue(g) ==
    Over(to_decimal(g.total_direct_cost),
         Minus(<<1, 1>>, Over(to_decimal(g.gm), <<100, 1>>)))

\* overhead = rate * duration
StatedOverhead(g) == Times(to_decimal(g.overhead_dayrate), to_decimal(g.duration_with_dt))

\* the waterfall from the stated revenue and the stated overhead on
StatedWaterfall(g) ==
    FromGp(g, StatedRevenue(g), Minus(StatedRevenue(g), to_decimal(g.total_direct_cost)),
           StatedOverhead(g), to_decimal(g.duration_with_dt))

\* C11: Financial.save with cost and margin present, margin not 100 and a
\* positive duration stores the waterfall values revenue = cost/(1 - gm/100),
\* gp = revenue - cost, overhead = rate * duration, ebitda = gp - overhead,
\* ebit = ebitda - depreciation, net = ebit - taxes, the percentages of revenue
\* and the per-day amounts, each rounded half-up to two places; the worked
\* example stores 125000.00, 25000.00, 210000.00, -185000.00, -190000.00,
\* -192000.00, -19000.00 and -19200.00.
C11_WaterfallStored ==
    (FinancialSaved /\ HasValue(last.given.total_direct_cost) /\ HasValue(last.given.gm)
        /\ last.given.gm # <<10000>> /\ HasValue(last.given.duration_with_dt)
        /\ last.given.duration_with_dt[1] > 0) =>
        /\ StoredFinancial = StatedWaterfall(last.given)
        /\ IsExample(last.given) =>
               /\ StoredFinancial.total_revenue = <<12500000>>
               /\ StoredFinancial.gp = <<2500000>>
               /\ StoredFinancial.total_overhead = <<21000000>>
               /\ StoredFinancial.ebitda_amount = <<-18500000>>
               /\ StoredFinancial.ebit_amount = <<-19000000>>
               /\ StoredFinancial.net_amount = <<-19200000>>
               /\ StoredFinancial.ebit_day = <<-1900000>>
               /\ StoredFinancial.net_day = <<-1920000>>

\* C12: Financial.save with a margin of 100 stores null in revenue and in every
\* field derived from revenue (gp, EBITDA, EBIT and net amounts and percents,
\* EBIT/day and net/day), whatever the other inputs are.
C12_FullMarginStoresNull ==
    (FinancialSaved /\ last.given.gm = <<10000>>) =>
        /\ StoredFinancial.total_revenue = Null
        /\ StoredFinancial.gp = Null
        /\ StoredFinancial.ebitda_amount = Null
        /\ StoredFinancial.ebitda_pct = Null
        /\ StoredFinancial.ebit_amount = Null
        /\ StoredFinancial.ebit_pct = Null
        /\ StoredFinancial.net_amount = Null
        /\ StoredFinancial.net_pct = Null
        /\ StoredFinancial.ebit_day = Null
        /\ StoredFinancial.net_day = Null

\* a save with a margin of 100 and every other input present, over a row whose
\* derived fields an import had filled
C12_Witness ==
    /\ FinancialSaved
    /\ last.op = "add_or_edit_financial"
    /\ last.given.gm = <<10000>>
    /\ last.given.total_revenue = <<12500000>>
    /\ last.given.total_direct_cost = <<10000000>>
    /\ last.given.duration_with_dt = <<1000>>
    /\ HasValue(last.given.depreciation)
    /\ HasValue(StoredFinancial.total_overhead)
    /\ StoredFinancial.total_revenue = Null

\* C13: Financial.save with a duration of 0, cost and margin present and the
\* margin not 100, stores null in EBIT/day and net/day and still stores the
\* EBIT and net amounts.
C13_ZeroDurationKeepsAmounts ==
    (FinancialSaved /\ last.given.duration_with_dt = <<0>>
        /\ HasValue(last.given.total_direct_cost) /\ HasValue(last.given.gm)
        /\ last.given.gm # <<10000>>) =>
        /\ StoredFinancial.ebit_day = Null
        /\ StoredFinancial.net_day = Null
        /\ HasValue(StoredFinancial.ebit_amount)
        /\ HasValue(StoredFinancial.net_amount)

\* a save with duration 0 of the example's cost and margin: the amounts are the
\* gross profit less depreciation and taxes
C13_Witness ==
    /\ FinancialSaved
    /\ last.given.duration_with_dt = <<0>>
    /\ last.given.total_direct_cost = <<10000000>>
    /\ last.given.gm = <<2000>>
    /\ last.given.depreciation = <<500000>>
    /\ last.given.taxes = <<200000>>
    /\ StoredFinancial.ebit_amount = <<2000000>>
    /\ StoredFinancial.net_amount = <<1800000>>
    /\ StoredFinancial.ebit_day = Null

\* C14: in every state, every stored financial row holds in its derived fields
\* what the waterfall gives for the row's stored inputs (null where the
\* waterfall is null): no derived value is hand-entered or imported.
C14_DerivedFromStoredInputs ==
    \A i \in 1..Len(details) :
        details[i].table = "financials" =>
            details[i].value = FinancialSave(details[i].value)

-----------------------------------------------------------------------------
(* The name scorers, as functions of two texts *)

\* import_obn_pricing_data.normalize_name
pricing_normalize_name(name) ==
    IF name = << >> THEN << >> ELSE Strip(Lower(JoinSpace(Split(name))))

\* import_obn_pricing_data.calculate_similarity, the shared words
PricingSimilarityOfWords(words1, words2) ==
    IF words1 \cap words2 # {}
    THEN (Scale * Cardinality(words1 \cap words2)) \div Cardinality(words1 \cup words2)
    ELSE 0

\* import_obn_pricing_data.calculate_similarity, on the two normalized names:
\* there is no test for an empty name, and '' is contained in every text
PricingSimilarityOf(s1_norm, s2_norm) ==
    IF s1_norm = s2_norm THEN Scale
    ELSE IF Contains(s1_norm, s2_norm) \/ Contains(s2_norm, s1_norm)
    THEN (8 * Scale) \div 10
    ELSE PricingSimilarityOfWords(Range(Split(s1_norm)), Range(Split(s2_norm)))

\* import_obn_pricing_data.calculate_similarity
pricing_calculate_similarity(s1, s2) ==
    PricingSimilarityOf(pricing_normalize_name(s1), pricing_normalize_name(s2))

\* the characters of the texts scored
Alphabet == {"a", "b", "A", " ", "*"}

\* every text of at most MaxTextLen characters; the empty text stands for ''
\* and for None, which the scorers treat alike ("if not name")
Texts == UNION {[1..n -> Alphabet] : n \in 0..MaxTextLen}

\* the scripts that define a calculate_similarity
Scorers == {"import_obn_lost_bids", "import_submitted_progress",
            "import_obn_pricing_data", "diagnose_obn_import"}

\* the state before the calls: the tables of db, the calls still to be made, and
\* what is in progress
Ready(db, calls, r) ==
    /\ today = 1
    /\ clients = db.clients
    /\ projects = db.projects
    /\ contracts = db.contracts
    /\ snapshots = db.snapshots
    /\ bid_history = db.bid_history
    /\ status_history = db.status_history
    /\ changelog = db.changelog
    /\ details = << >>
    /\ opsLeft = calls
    /\ faultsLeft = 0
    /\ last = NoCall
    /\ run = r

\* no handler call to be made: r is all that is in progress
Idle(db, r) == Ready(db, 0, r)

\* the result of one call of a scorer
Scored(module, s1, s2, s1_norm, s2_norm, score) ==
    [ script |-> "calculate_similarity", module |-> module, s1 |-> s1, s2 |-> s2,
      s1_norm |-> s1_norm, s2_norm |-> s2_norm, score |-> score ]

ScoreLostBids ==
    /\ run.script = "texts"
    /\ run' = Scored("import_obn_lost_bids", run.s1, run.s2, normalize_name(run.s1),
                     normalize_name(run.s2), calculate_similarity(run.s1, run.s2))
    /\ UNCHANGED <<today, clients, projects, contracts, snapshots, bid_history,
                   status_history, changelog, details, opsLeft, faultsLeft, last>>

\* import_submitted_progress carries the same normalize_name and
\* calculate_similarity as import_obn_lost_bids
ScoreSubmittedProgress ==
    /\ run.script = "texts"
    /\ run' = Scored("import_submitted_progress", run.s1, run.s2,
                     normalize_name(run.s1), normalize_name(run.s2),
                     calculate_similarity(run.s1, run.s2))
    /\ UNCHANGED <<today, clients, projects, contracts, snapshots, bid_history,
                   status_history, changelog, details, opsLeft, faultsLeft, last>>

ScorePricingData ==
    /\ run.script = "texts"
    /\ run' = Scored("import_obn_pricing_data", run.s1, run.s2,
                     pricing_normalize_name(run.s1), pricing_normalize_name(run.s2),
                     pricing_calculate_similarity(run.s1, run.s2))
    /\ UNCHANGED <<today, clients, projects, contracts, snapshots, bid_history,
                   status_history, changelog, details, opsLeft, faultsLeft, last>>

ScoreDiagnose ==
    /\ run.script = "texts"
    /\ run' = Scored("diagnose_obn_import", run.s1, run.s2,
                     diagnose_normalize_name(run.s1), diagnose_normalize_name(run.s2),
                     diagnose_calculate_similarity(run.s1, run.s2))
    /\ UNCHANGED <<today, clients, projects, contracts, snapshots, bid_history,
                   status_history, changelog, details, opsLeft, faultsLeft, last>>

InitSimilarity ==
    \E s1 \in Texts, s2 \in Texts :
        Idle(EmptyDB, [ script |-> "texts", s1 |-> s1, s2 |-> s2 ])

NextSimilarity ==
    \/ ScoreLostBids
    \/ ScoreSubmittedProgress
    \/ ScorePricingData
    \/ ScoreDiagnose

SpecSimilarity == InitSimilarity /\ [][NextSimilarity]_vars

\* a scorer has been applied to the two texts
WasScored == run.script = "calculate_similarity"

\* C15: for every scorer and all texts a, b, the score is 1.0 when a and b are
\* not empty and normalize to the same string, and 0.0 when a or b is empty or
\* absent.
C15_SameIsOneEmptyIsZero ==
    WasScored =>
        /\ (run.s1 # << >> /\ run.s2 # << >> /\ run.s1_norm = run.s2_norm) =>
               run.score = Scale
        /\ (run.s1 = << >> \/ run.s2 = << >>) => run.score = 0

\* 0.7 + 0.2 * (shorter length / longer length), in fixed point
SubstringScore(a, b) ==
    (7 * Scale) \div 10 + (2 * Scale * Min(Len(a), Len(b))) \div (10 * Max(Len(a), Len(b)))

\* one of two different, non-empty normalized names is contained in the other
OneInsideOther(a, b) ==
    /\ a # << >> /\ b # << >> /\ a # b
    /\ (Contains(a, b) \/ Contains(b, a))

\* C16: when the normalized forms of the two texts differ and one is a substring
\* of the other, calculate_similarity returns 0.7 + 0.2 * (shorter length /
\* longer length), a value from 0.7 up to but not 0.9, also when the texts
\* share whole words.
C16_SubstringScore ==
    (WasScored /\ OneInsideOther(run.s1_norm, run.s2_norm)) =>
        /\ run.score = SubstringScore(run.s1_norm, run.s2_norm)
        /\ run.score >= (7 * Scale) \div 10
        /\ run.score < (9 * Scale) \div 10

-----------------------------------------------------------------------------
(* The resolvers and the tier policy, on one source record *)

\* the Client cells of the records resolved
ResolverClients == UNION {[1..n -> {"c", "x", " ", "*"}] : n \in 0..MaxClientLen}

\* the Survey / Project cells of the records resolved
ResolverSurveys == UNION {[1..n -> {"a", "b", " "}] : n \in 0..MaxSurveyLen}

\* the result of one call of a resolver
Resolved(module, m) ==
    [ script |-> "find_matching_project", module |-> module, Client |-> run.Client,
      Survey |-> run.Survey, match |-> m.match, score |-> m.score,
      match_type |-> m.match_type ]

\* import_obn_lost_bids.find_matching_project on the two cells
ResolveLostBids ==
    /\ run.script = "record"
    /\ run' = Resolved("import_obn_lost_bids",
                       find_matching_project(run.Client, run.Survey, DB,
                                             AllProjects(projects)))
    /\ UNCHANGED <<today, clients, projects, contracts, snapshots, bid_history,
                   status_history, changelog, details, opsLeft, faultsLeft, last>>

\* import_submitted_progress.find_matching_project on the two cells
ResolveSubmittedProgress ==
    /\ run.script = "record"
    /\ run' = Resolved("import_submitted_progress",
                       find_matching_project_submitted(run.Client, run.Survey, DB,
                                                       AllProjects(projects)))
    /\ UNCHANGED <<today, clients, projects, contracts, snapshots, bid_history,
                   status_history, changelog, details, opsLeft, faultsLeft, last>>

\* import_obn_lost_bids.process_row: the record is appended to ambiguous_records
\* in the 'medium' and in the 'low' branch
AmbiguousRecordsLost(out) == out.action # "skipped" /\ out.tier \in {"medium", "low"}

\* import_submitted_progress.process_row keeps no list of ambiguous records
AmbiguousRecordsSubmitted(out) == FALSE

\* what process_row did with the record
Processed(module, out, ambiguous, bids_before) ==
    [ script |-> "process_row", module |-> module, tier |-> out.tier,
      action |-> out.action, pk |-> out.pk, ambiguous |-> ambiguous,
      bids_before |-> bids_before ]

ProcessedAs(module, out, ambiguous) ==
    /\ Commit(out.db)
    /\ details' = out.details
    /\ run' = Processed(module, out, ambiguous, Len(projects))

\* import_obn_lost_bids.process_row on the record
ProcessRowLostBids ==
    /\ run.script = "record"
    /\ LET out == process_row_lost(DB, details,
                      SourceRow(run.Client, run.Survey, "Lost", NoDate, CallerDate,
                                NoDate, CompetitorCode, Country),
                      AllProjects(projects), today, FALSE)
       IN  ProcessedAs("import_obn_lost_bids", out, AmbiguousRecordsLost(out))
    /\ UNCHANGED <<today, opsLeft, faultsLeft, last>>

\* import_submitted_progress.process_row on the record
ProcessRowSubmittedProgress ==
    /\ run.script = "record"
    /\ LET out == process_row_submitted(DB, details,
                      SourceRow(run.Client, run.Survey, "Submitted", CallerDate,
                                CallerDate, NoDate, "", Country),
                      AllProjects(projects), today, FALSE)
       IN  ProcessedAs("import_submitted_progress", out, AmbiguousRecordsSubmitted(out))
    /\ UNCHANGED <<today, opsLeft, faultsLeft, last>>

\* the database holds one bid, "ab" of the client "c x"; one record comes in
InitResolver ==
    \E c \in ResolverClients, s \in ResolverSurveys :
        Idle(SeedBid("Ongoing"), [ script |-> "record", Client |-> c, Survey |-> s ])

NextResolver ==
    \/ ResolveLostBids
    \/ ResolveSubmittedProgress
    \/ ProcessRowLostBids
    \/ ProcessRowSubmittedProgress

SpecResolver == InitResolver /\ [][NextResolver]_vars

\* the tier the fixed cutoffs give a score
TierOfScore(score) ==
    IF score >= (95 * Scale) \div 100 THEN "exact"
    ELSE IF score >= (85 * Scale) \div 100 THEN "high"
    ELSE IF score >= (5 * Scale) \div 10 THEN "medium"
    ELSE IF score >= (3 * Scale) \div 10 THEN "low"
    ELSE "none"

\* C17: in both resolvers the tier is the one the cutoffs give the best combined
\* score: 0.95 and above 'exact', from 0.85 'high', from 0.5 'medium', from 0.3
\* 'low', below 0.3 'none'.
C17_TierByCutoffs ==
    run.script = "find_matching_project" => run.match_type = TierOfScore(run.score)

\* C18: for every record the pipeline resolves: tier exact or high advances the
\* matched bid and creates no bid; tier medium is reported as ambiguous; tier
\* low is reported as ambiguous and creates a bid; tier none creates a bid and
\* reports no ambiguity.
C18_TierPolicy ==
    (run.script = "process_row" /\ run.action # "skipped") =>
        /\ run.tier \in {"exact", "high"} =>
               /\ Len(projects) = run.bids_before
               /\ run.pk \in 1..run.bids_before
               /\ run.action \in {"matched", "updated"}
        /\ run.tier = "medium" => run.ambiguous
        /\ run.tier = "low" =>
               /\ run.ambiguous
               /\ Len(projects) = run.bids_before + 1
        /\ run.tier = "none" =>
               /\ ~run.ambiguous
               /\ Len(projects) = run.bids_before + 1

-----------------------------------------------------------------------------
(* The contract dates *)

\* the dashboard modal is posted for a bid the application holds
InitContract == Ready(SeedBid("Ongoing"), MaxContractOps, NoRun)

NextContract ==
    \/ Tick
    \/ UpdateContract

SpecContract == InitContract /\ [][NextContract]_vars

\* C19: after every ProjectContract.save the stored duration is
\* max(0, end - start) in days when actual start and actual end are both set,
\* and null when one of them is missing, also when a later save has cleared a
\* bound that was set.
C19_DurationFollowsDates ==
    \A i \in 1..Len(contracts) :
        IF contracts[i].actual_start # NoDate /\ contracts[i].actual_end # NoDate
        THEN contracts[i].actual_duration =
                 << Max(0, contracts[i].actual_end[1] - contracts[i].actual_start[1]) >>
        ELSE contracts[i].actual_duration = << >>

-----------------------------------------------------------------------------
(* The identity code *)

RECURSIVE LastSegment(_)
\* the text after the last hyphen
LastSegment(t) ==
    IF \E i \in 1..Len(t) : t[i] = "-"
    THEN LastSegment(SubSeq(t, (CHOOSE i \in 1..Len(t) : t[i] = "-") + 1, Len(t)))
    ELSE t

\* the last call was a Project.save that changed the status of an existing bid
StatusChanged == SaveRan /\ last.op # "create" /\ PrevStatus # Row.status

\* C20: when a Project.save changes the status of an existing bid, the identity
\* code is rebuilt from the bid's current fields and ends in the code of the new
\* status (ONG, SUB, WON, LST, CXL, NBD); the row is the same row and the
\* number of Project rows is unchanged.
C20_StatusChangeRebuildsCode ==
    StatusChanged =>
        /\ Row.internal_id = JoinParts(BaseParts(clients, Row)
                                           \o << STATUS_CODES(Row.status) >>)
        /\ LastSegment(Row.internal_id) = STATUS_CODES(Row.status)
        /\ Row.pk = last.pk
        /\ Len(projects) = Len(last.before.projects)

\* a bid whose code ended in its country is saved as Submitted with another bid
\* type: the code is rebuilt with the new bid type and ends in SUB
C20_Witness ==
    /\ StatusChanged
    /\ last.op = "save"
    /\ PrevStatus = "Ongoing" /\ Row.status = "Submitted"
    /\ PrevRow.bid_type = "BQ" /\ Row.bid_type = "RFQ"
    /\ LastSegment(PrevRow.internal_id) = Country
    /\ LastSegment(Row.internal_id) = <<"S", "U", "B">>
    /\ Row.internal_id # PrevRow.internal_id
    /\ Len(projects) = 1

-----------------------------------------------------------------------------
(* backfill_changelog: the unified log rebuilt from the two history tables *)

\* changed_at = DateTimeField(auto_now_add=True): on insert the field is set to
\* the current time, whatever value the caller passed
AutoNowAdd(given, now) == now

\* a row as inserted at time now
InsertedAt(row, given, now) ==
    [ f \in DOMAIN row \cup {"changed_at"} |->
          IF f = "changed_at" THEN AutoNowAdd(given, now) ELSE row[f] ]

\* the rows a call added to a table, inserted at time now
InsertedSince(before, after, now) ==
    [ i \in 1..Len(after) |->
          IF i > Len(before) THEN InsertedAt(after[i], now, now) ELSE after[i] ]

\* Project.save with the timestamps of its audit rows: the history rows are
\* inserted at time now, the ChangeLog rows at time later
ProjectSaveAt(db, self, day, now, later) ==
    LET res == ProjectSave(db, self, day, {})
    IN  [res.db EXCEPT
            !.bid_history = InsertedSince(db.bid_history, @, now),
            !.status_history = InsertedSince(db.status_history, @, now),
            !.changelog = InsertedSince(db.changelog, @, later)]

\* ChangeLog.objects.filter(project, change_type, field_name, previous_value,
\* new_value, changed_at).exists()
ChangeLogExists(rows, pk, change_type, field_name, previous_value, new_value, changed_at) ==
    \E i \in 1..Len(rows) :
        /\ rows[i].project = pk
        /\ rows[i].change_type = change_type
        /\ rows[i].field_name = field_name
        /\ rows[i].previous_value = previous_value
        /\ rows[i].new_value = new_value
        /\ rows[i].changed_at = changed_at

\* the counters of one run of the command
BackfillState(rows, created, skipped) ==
    [ changelog |-> rows, created |-> created, skipped |-> skipped ]

\* ChangeLog.objects.create(...) of the backfill
BackfillCreate(s, pk, change_type, field_name, previous_value, new_value, event_date, changed_at, now) ==
    BackfillState(
        Append(s.changelog,
               InsertedAt([ project |-> pk, change_type |-> change_type,
                            field_name |-> field_name,
                            previous_value |-> previous_value,
                            new_value |-> new_value, event_date |-> event_date,
                            changed_by |-> None ], changed_at, now)),
        s.created + 1, s.skipped)

BackfillSkip(s) == BackfillState(s.changelog, s.created, s.skipped + 1)

\* one BidTypeHistory row b
BackfillBid(s, b, now) ==
    IF ChangeLogExists(s.changelog, b.project, "BID", "bid_type", b.previous_bid_type,
                       b.new_bid_type, b.changed_at)
    THEN BackfillSkip(s)
    ELSE BackfillCreate(s, b.project, "BID", "bid_type", b.previous_bid_type,
                        b.new_bid_type, NoDate, b.changed_at, now)

\* the event date the command gives a status entry: the bid's date now
BackfillEventDate(project, new_status) ==
    IF new_status = "Submitted" THEN project.submission_date
    ELSE IF new_status = "Won" THEN project.award_date
    ELSE IF new_status = "Lost" THEN project.lost_date
    ELSE NoDate

\* one ProjectStatusHistory row h
BackfillStatus(s, bids, h, now) ==
    IF ChangeLogExists(s.changelog, h.project, "STATUS", "status", h.previous_status,
                       h.new_status, h.changed_at)
    THEN BackfillSkip(s)
    ELSE BackfillCreate(s, h.project, "STATUS", "status", h.previous_status,
                        h.new_status, BackfillEventDate(bids[h.project], h.new_status),
                        h.changed_at, now)

RECURSIVE BackfillBids(_, _, _, _)
\* the loop over BidTypeHistory, from row i, ordered by changed_at
BackfillBids(s, rows, i, now) ==
    IF i > Len(rows) THEN s
    ELSE BackfillBids(BackfillBid(s, rows[i], now), rows, i + 1, now)

RECURSIVE BackfillStatuses(_, _, _, _, _)
\* the loop over ProjectStatusHistory, from row i, ordered by changed_at
BackfillStatuses(s, bids, rows, i, now) ==
    IF i > Len(rows) THEN s
    ELSE BackfillStatuses(BackfillStatus(s, bids, rows[i], now), bids, rows, i + 1, now)

\* Command.handle of backfill_changelog at time now
backfill_changelog(db, now) ==
    BackfillStatuses(BackfillBids(BackfillState(db.changelog, 0, 0), db.bid_history, 1, now),
                     db.projects, db.status_history, 1, now)

\* the command's run record: the time, the counters of the last run, the number
\* of runs, and the history rows inserted since the run before
BackfillRun(now, created, skipped, ran, histories, fresh) ==
    [ script |-> "backfill_changelog", now |-> now, created |-> created,
      skipped |-> skipped, ran |-> ran, histories |-> histories, fresh |-> fresh ]

\* a later time the clock can show within one call
Later(now) == {t \in {now, now + 1} : t <= MaxClock}

AtTime(now) == run' = [run EXCEPT !.now = now]

\* time passes
BackfillClock ==
    /\ run.now < MaxClock
    /\ AtTime(run.now + 1)
    /\ UNCHANGED <<today, clients, projects, contracts, snapshots, bid_history,
                   status_history, changelog, details, opsLeft, faultsLeft, last>>

\* Project.objects.create(...) of the test: the save writes its own history and
\* ChangeLog rows
BackfillCreateProject ==
    /\ opsLeft > 0
    /\ Len(projects) < MaxBids
    /\ \E status \in {"Ongoing", "Submitted"}, later \in Later(run.now) :
          LET given == NewProject(SurveyName, 1, Country, "BQ", status, CallerDate, NoDate)
          IN  /\ Commit(ProjectSaveAt(DB, given, today, run.now, later))
              /\ last' = Call("create", Len(projects) + 1, DB, given, today, {}, FALSE)
              /\ AtTime(later)
    /\ opsLeft' = opsLeft - 1
    /\ UNCHANGED <<today, details, faultsLeft>>

\* a later save of the bid with another status or bid type
BackfillSaveProject ==
    /\ opsLeft > 0
    /\ \E pk \in 1..Len(projects), status \in {"Ongoing", "Submitted", "Won"},
          bid_type \in BidTypes, later \in Later(run.now) :
          LET given == [projects[pk] EXCEPT !.status = status, !.bid_type = bid_type]
          IN  /\ Commit(ProjectSaveAt(DB, given, today, run.now, later))
              /\ last' = Call("save", pk, DB, given, today, {}, FALSE)
              /\ AtTime(later)
    /\ opsLeft' = opsLeft - 1
    /\ UNCHANGED <<today, details, faultsLeft>>

\* BidTypeHistory.objects.create(project=p, previous_bid_type="BQ", new_bid_type="RFQ")
CreateBidTypeHistory ==
    /\ opsLeft > 0
    /\ \E pk \in 1..Len(projects) :
          /\ bid_history' = Append(bid_history,
                 InsertedAt([ project |-> pk, previous_bid_type |-> "BQ",
                              new_bid_type |-> "RFQ" ], run.now, run.now))
          /\ last' = Call("create_history", pk, DB, projects[pk], today, {}, FALSE)
    /\ opsLeft' = opsLeft - 1
    /\ UNCHANGED <<today, clients, projects, contracts, snapshots, status_history,
                   changelog, details, faultsLeft, run>>

\* ProjectStatusHistory.objects.create(project=p, previous_status="Ongoing",
\* new_status="Submitted")
CreateProjectStatusHistory ==
    /\ opsLeft > 0
    /\ \E pk \in 1..Len(projects) :
          /\ status_history' = Append(status_history,
                 InsertedAt([ project |-> pk, previous_status |-> "Ongoing",
                              new_status |-> "Submitted" ], run.now, run.now))
          /\ last' = Call("create_history", pk, DB, projects[pk], today, {}, FALSE)
    /\ opsLeft' = opsLeft - 1
    /\ UNCHANGED <<today, clients, projects, contracts, snapshots, bid_history,
                   changelog, details, faultsLeft, run>>

HistoryRows == Len(bid_history) + Len(status_history)

BackfillDone(out) ==
    /\ changelog' = out.changelog
    /\ run' = BackfillRun(run.now, out.created, out.skipped, run.ran + 1, HistoryRows,
                          HistoryRows - run.histories)

\* call_command('backfill_changelog')
BackfillChangelog ==
    /\ opsLeft > 0
    /\ BackfillDone(backfill_changelog(DB, run.now))
    /\ last' = Call("backfill_changelog", 0, DB, NoCall.given, today, {}, FALSE)
    /\ opsLeft' = opsLeft - 1
    /\ UNCHANGED <<today, clients, projects, contracts, snapshots, bid_history,
                   status_history, details, faultsLeft>>

\* one client, no bid, the command never run
InitBackfill ==
    Ready([EmptyDB EXCEPT !.clients = << ClientText >>], MaxBackfillOps,
          BackfillRun(1, 0, 0, 0, 0, 0))

NextBackfill ==
    \/ BackfillClock
    \/ BackfillCreateProject
    \/ BackfillSaveProject
    \/ CreateBidTypeHistory
    \/ CreateProjectStatusHistory
    \/ BackfillChangelog

SpecBackfill == InitBackfill /\ [][NextBackfill]_vars

\* the last call was a run of the command
BackfillRan == last.op = "backfill_changelog"

\* a ChangeLog row with the same bid, change type, previous value and new value
Logged(rows, pk, change_type, previous_value, new_value) ==
    \E i \in 1..Len(rows) :
        /\ rows[i].project = pk
        /\ rows[i].change_type = change_type
        /\ rows[i].previous_value = previous_value
        /\ rows[i].new_value = new_value

\* every history row has its ChangeLog row
AllLogged(rows) ==
    /\ \A i \in 1..Len(bid_history) :
           Logged(rows, bid_history[i].project, "BID", bid_history[i].previous_bid_type,
                  bid_history[i].new_bid_type)
    /\ \A i \in 1..Len(status_history) :
           Logged(rows, status_history[i].project, "STATUS",
                  status_history[i].previous_status, status_history[i].new_status)

\* the number of history rows that had their ChangeLog row in rows
LoggedIn(rows) ==
    Cardinality({i \in 1..Len(bid_history) :
                    Logged(rows, bid_history[i].project, "BID",
                           bid_history[i].previous_bid_type, bid_history[i].new_bid_type)})
    + Cardinality({i \in 1..Len(status_history) :
                    Logged(rows, status_history[i].project, "STATUS",
                           status_history[i].previous_status,
                           status_history[i].new_status)})

\* C21: after a run of backfill_changelog every BidTypeHistory and
\* ProjectStatusHistory row has a ChangeLog row with the same bid, change type,
\* previous value and new value; a history row whose ChangeLog row existed
\* before the run was skipped; and a run that follows another run with no
\* history row inserted in between creates no ChangeLog row.
C21_BackfillOnce ==
    BackfillRan =>
        /\ AllLogged(changelog)
        /\ run.skipped >= LoggedIn(last.before.changelog)
        /\ (run.ran > 1 /\ run.fresh = 0) => run.created = 0

-----------------------------------------------------------------------------
(* Two callers saving the same bid at the same time.  Project.save takes no
   lock and opens no transaction: each of its database statements is a step of
   its own, and the steps of the two callers interleave freely. *)

Callers == {1, 2}

\* the bid both callers save
SharedBid == 1

\* the statuses the callers move the Submitted bid to
ConcurrentStatuses == {"Won", "Lost", "Cancelled"}

\* a caller that has not loaded the bid yet
IdleCaller ==
    [ pc |-> "idle", self |-> NewProject(<< >>, 0, << >>, "BQ", "Ongoing", NoDate, NoDate),
      prev |-> NewProject(<< >>, 0, << >>, "BQ", "Ongoing", NoDate, NoDate) ]

ConcurrentRun(callers) == [ script |-> "concurrent_saves", callers |-> callers ]

\* caller c moves on to pc with the instance self and the previous row prev
Moves(c, pc, self, prev) ==
    run' = ConcurrentRun([run.callers EXCEPT ![c] = [ pc |-> pc, self |-> self,
                                                      prev |-> prev ]])

At(c, pc) == run.script = "concurrent_saves" /\ run.callers[c].pc = pc

\* the caller loads the bid and assigns the new status
LoadBid(c) ==
    /\ At(c, "idle")
    /\ \E status \in ConcurrentStatuses :
          Moves(c, "loaded", [projects[SharedBid] EXCEPT !.status = status],
                run.callers[c].prev)
    /\ UNCHANGED <<today, clients, projects, contracts, snapshots, bid_history,
                   status_history, changelog, details, opsLeft, faultsLeft, last>>

\* save(): prev = Project.objects.get(pk=self.pk), then the milestone dates are
\* set on the instance
ReadPrevious(c) ==
    /\ At(c, "loaded")
    /\ Moves(c, "read",
             StampDates(projects[SharedBid].status, run.callers[c].self, today),
             projects[SharedBid])
    /\ UNCHANGED <<today, clients, projects, contracts, snapshots, bid_history,
                   status_history, changelog, details, opsLeft, faultsLeft, last>>

\* save(): the snapshot of the previous row
WriteSnapshot(c) ==
    /\ At(c, "read")
    /\ snapshots' = SnapshotsBeforeSave(snapshots, SharedBid, TRUE, run.callers[c].prev,
                                        run.callers[c].self.bid_type,
                                        run.callers[c].self.status, None, {})
    /\ Moves(c, "snapshot", run.callers[c].self, run.callers[c].prev)
    /\ UNCHANGED <<today, clients, projects, contracts, bid_history, status_history,
                   changelog, details, opsLeft, faultsLeft, last>>

\* the instance as super().save() writes it: the identity code rebuilt when the
\* status differs from the one read
Coded(cl, prev, self) ==
    build_internal_id(cl, IF prev.status # self.status
                          THEN [self EXCEPT !.internal_id = StatusInternalId(cl, self)]
                          ELSE self)

\* save(): super().save() writes every field of the instance
WriteRow(c) ==
    /\ At(c, "snapshot")
    /\ projects' = WriteProject(projects, Coded(clients, run.callers[c].prev,
                                                run.callers[c].self))
    /\ Moves(c, "row", Coded(clients, run.callers[c].prev, run.callers[c].self),
             run.callers[c].prev)
    /\ UNCHANGED <<today, clients, contracts, snapshots, bid_history, status_history,
                   changelog, details, opsLeft, faultsLeft, last>>

\* save(): BidTypeHistory and ProjectStatusHistory
WriteHistory(c) ==
    /\ At(c, "row")
    /\ bid_history' = BidHistoryAfterSave(bid_history, SharedBid,
                                          run.callers[c].prev.bid_type,
                                          run.callers[c].self, {})
    /\ status_history' = StatusHistoryAfterSave(status_history, SharedBid,
                                                run.callers[c].prev.status,
                                                run.callers[c].self, {})
    /\ Moves(c, "history", run.callers[c].self, run.callers[c].prev)
    /\ UNCHANGED <<today, clients, projects, contracts, snapshots, changelog, details,
                   opsLeft, faultsLeft, last>>

\* save(): ProjectContract.objects.get_or_create when the bid has become Won
EnsureContract(c) ==
    /\ At(c, "history")
    /\ contracts' = ContractsAfterSave(contracts, SharedBid, run.callers[c].prev.status,
                                       run.callers[c].self, {})
    /\ Moves(c, "contract", run.callers[c].self, run.callers[c].prev)
    /\ UNCHANGED <<today, clients, projects, snapshots, bid_history, status_history,
                   changelog, details, opsLeft, faultsLeft, last>>

\* save(): the unified ChangeLog entries
WriteChangeLog(c) ==
    /\ At(c, "contract")
    /\ changelog' = ChangeLogAfterSave(changelog, SharedBid, run.callers[c].prev.status,
                                       run.callers[c].prev.bid_type,
                                       run.callers[c].self, {})
    /\ Moves(c, "done", run.callers[c].self, run.callers[c].prev)
    /\ UNCHANGED <<today, clients, projects, contracts, snapshots, bid_history,
                   status_history, details, opsLeft, faultsLeft, last>>

\* the bid is Submitted; neither caller has started
InitConcurrent ==
    Idle(SeedBid("Submitted"), ConcurrentRun([c \in Callers |-> IdleCaller]))

NextConcurrent ==
    \E c \in Callers :
        \/ LoadBid(c)
        \/ ReadPrevious(c)
        \/ WriteSnapshot(c)
        \/ WriteRow(c)
        \/ WriteHistory(c)
        \/ EnsureContract(c)
        \/ WriteChangeLog(c)

SpecConcurrent == InitConcurrent /\ [][NextConcurrent]_vars

\* the rows of a table without their order
RowBag(rows) ==
    [ r \in {rows[i] : i \in 1..Len(rows)} |->
          Cardinality({i \in 1..Len(rows) : rows[i] = r}) ]

\* what the claim compares: status, milestone dates, Contract rows, status
\* history and ChangeLog entries of the bid
SaveOutcome(db) ==
    [ status |-> db.projects[SharedBid].status,
      submission_date |-> db.projects[SharedBid].submission_date,
      award_date |-> db.projects[SharedBid].award_date,
      lost_date |-> db.projects[SharedBid].lost_date,
      contracts |-> RowBag(db.contracts),
      status_history |-> RowBag(db.status_history),
      changelog |-> RowBag(db.changelog) ]

\* the caller loads the bid from db, assigns status and saves, alone
SavedAlone(db, status, day) ==
    ProjectSave(db, [db.projects[SharedBid] EXCEPT !.status = status], day, {}).db

\* first the call that sets status first, then the call that sets status then
InOrder(db, first, then, day) == SavedAlone(SavedAlone(db, first, day), then, day)

BothDone == At(1, "done") /\ At(2, "done")

\* C22: for every interleaving of two Project.save calls on one bid, the status,
\* the milestone dates, the Contract row and the status history and ChangeLog
\* entries at the end are those of one of the two sequential orders of the
\* calls.
C22_SavesSerialized ==
    BothDone =>
        SaveOutcome(DB) \in
            { SaveOutcome(InOrder(SeedBid("Submitted"), run.callers[1].self.status,
                                  run.callers[2].self.status, today)),
              SaveOutcome(InOrder(SeedBid("Submitted"), run.callers[2].self.status,
                                  run.callers[1].self.status, today)) }

-----------------------------------------------------------------------------
(* The event date of the unified log *)

\* the milestone date of a bid's status, as stored
MilestoneDate(row) ==
    IF row.status = "Submitted" THEN row.submission_date
    ELSE IF row.status = "Won" THEN row.award_date
    ELSE IF row.status = "Lost" THEN row.lost_date
    ELSE NoDate

\* the STATUS entries the last call appended to the unified log
NewStatusEntries ==
    {i \in (Len(last.before.changelog) + 1)..Len(changelog) :
        changelog[i].change_type = "STATUS"}

\* C23: every STATUS ChangeLog entry written by Project.save carries as event
\* date the submission date when the new status is Submitted, the award date
\* when it is Won, the lost date when it is Lost and null for any other status,
\* and this is the milestone date the same save stored on the bid.
C23_EventDateIsMilestone ==
    SaveRan =>
        \A i \in NewStatusEntries :
            /\ changelog[i].project = last.pk
            /\ changelog[i].new_value = Row.status
            /\ changelog[i].event_date = MilestoneDate(Row)
            /\ Row.status \notin {"Submitted", "Won", "Lost"} =>
                   changelog[i].event_date = NoDate

\* a Submitted bid is saved as Won on day 2: the entry carries day 2, the award
\* date the save stamped
C23_Witness ==
    /\ SaveRan
    /\ last.op = "save"
    /\ PrevStatus = "Submitted" /\ Row.status = "Won"
    /\ PrevRow.award_date = NoDate
    /\ Row.award_date = Date(2)
    /\ NewStatusEntries # {}
    /\ \A i \in NewStatusEntries : changelog[i].event_date = Date(2)

-----------------------------------------------------------------------------
(* The overhead step of the waterfall *)

\* the rate the overhead is to be computed with: the one supplied, the default
\* when none was supplied
SuppliedRate(g) ==
    IF g.overhead_dayrate = Null THEN to_decimal(OVERHEAD_DAYRATE_DEFAULT)
    ELSE to_decimal(g.overhead_dayrate)

\* C24: Financial.save uses the default overhead day-rate 21000.00 if and only
\* if no rate was supplied; a supplied rate, 0 included, is the rate total
\* overhead and EBITDA are computed with.
C24_SuppliedRateIsUsed ==
    (FinancialSaved /\ HasValue(last.given.duration_with_dt)
        /\ last.given.duration_with_dt[1] > 0) =>
        /\ StoredFinancial.total_overhead =
               quantize(Times(SuppliedRate(last.given),
                              to_decimal(last.given.duration_with_dt)))
        /\ HasValue(StoredFinancial.gp) =>
               StoredFinancial.ebitda_amount =
                   quantize(Minus(Gp(StatedRevenue(last.given),
                                     to_decimal(last.given.total_direct_cost)),
                                  Times(SuppliedRate(last.given),
                                        to_decimal(last.given.duration_with_dt))))

\* C25: Financial.save stores total overhead = rate * duration whenever the
\* duration is present, 0.00 for a duration of 0; total overhead is null only
\* when the duration is absent.
C25_OverheadOfPresentDuration ==
    FinancialSaved =>
        /\ HasValue(last.given.duration_with_dt) =>
               StoredFinancial.total_overhead =
                   quantize(Times(OverheadRate(last.given.overhead_dayrate),
                                  to_decimal(last.given.duration_with_dt)))
        /\ last.given.duration_with_dt = <<0>> => StoredFinancial.total_overhead = <<0>>
        /\ StoredFinancial.total_overhead = Null <=> last.given.duration_with_dt = Null

-----------------------------------------------------------------------------
(* The resolvers on a catalog of several bids *)

\* the names of the bids in the catalog
CatalogNames == { <<"a", "b">>, <<"a">>, <<"b">> }

\* the catalogs: up to MaxCatalog bids of one client, names may repeat
Catalogs == UNION {[1..n -> CatalogNames] : n \in 0..MaxCatalog}

\* the Client cells of the records
CatalogClients == { << >>, <<"c">>, <<"x">>, ClientText }

RECURSIVE CatalogFrom(_, _, _)
\* the bids of the catalog entered one after the other through the application
CatalogFrom(db, names, i) ==
    IF i > Len(names) THEN db
    ELSE CatalogFrom(ProjectSave(db, NewProject(names[i], 1, Country, "BQ", "Ongoing",
                                                CallerDate, NoDate), 1, {}).db,
                     names, i + 1)

CatalogDB(names) == CatalogFrom([EmptyDB EXCEPT !.clients = << ClientText >>], names, 1)

\* a catalog and one record to resolve
InitCatalog ==
    \E names \in Catalogs, c \in CatalogClients, s \in ResolverSurveys :
        Idle(CatalogDB(names), [ script |-> "record", Client |-> c, Survey |-> s ])

NextCatalog ==
    \/ ResolveLostBids
    \/ ResolveSubmittedProgress

SpecCatalog == InitCatalog /\ [][NextCatalog]_vars

\* the combined scores of the bids of the catalog, in iteration order
CandidateScores(csv_client, csv_survey) ==
    [ i \in 1..Len(projects) |->
          combined_score(csv_client, csv_survey,
                         ClientName(clients, projects[i].client), projects[i].name) ]

\* match is the first of the candidates that have the highest score, and none
\* is returned exactly when no candidate scores above zero
FirstOfBest(scores, match, score) ==
    /\ match = 0 <=> (Len(scores) = 0 \/ \A i \in 1..Len(scores) : scores[i] = 0)
    /\ match # 0 =>
           /\ match \in 1..Len(scores)
           /\ score = scores[match]
           /\ \A i \in 1..Len(scores) : scores[i] <= scores[match]
           /\ \A i \in 1..(match - 1) : scores[i] < scores[match]

\* C26: find_matching_project returns, of the candidates with the highest
\* combined score, the one met first in iteration order, and returns no
\* candidate exactly when the catalog is empty or every candidate scores 0.
C26_FirstOfBestCandidates ==
    run.script = "find_matching_project" =>
        FirstOfBest(CandidateScores(run.Client, run.Survey), run.match, run.score)

\* the second and the third bid score the same, higher than the first bid: the
\* second one is returned
C26_Witness ==
    /\ run.script = "find_matching_project"
    /\ Len(projects) = 3
    /\ run.match = 2
    /\ CandidateScores(run.Client, run.Survey)[2] = CandidateScores(run.Client, run.Survey)[3]
    /\ CandidateScores(run.Client, run.Survey)[1] < run.score
    /\ run.score > 0

-----------------------------------------------------------------------------
(* The status history as a chain *)

\* the ProjectStatusHistory rows of one bid link up, and the newest one ends at
\* the bid's status
IsChain(rows, status) ==
    /\ \A i \in 2..Len(rows) : rows[i].previous_status = rows[i - 1].new_status
    /\ Len(rows) > 0 => rows[Len(rows)].new_status = status

\* C27: after any sequence of operations that change a bid's status
\* (Project.save, create_new_project and update_project of
\* import_submitted_progress, fix_award_dates), on a working audit store, the
\* status history rows of the bid form a chain: the previous value of each
\* entry is the new value of the entry before it, and the new value of the
\* newest entry is the bid's current status.
C27_StatusHistoryIsChain ==
    \A pk \in 1..Len(projects) :
        IsChain(RowsOf(status_history, pk), projects[pk].status)

-----------------------------------------------------------------------------
(* Snapshots of a save that failed *)

\* the write of the bid's own row failed in the last call
PrimaryWriteFailed == last.op \in SaveCalls /\ "project" \in last.F

\* C28: a Snapshot row exists only for a change that was persisted: when the
\* write of the bid's row fails in a Project.save, the call leaves the snapshot
\* store as it was, so no Snapshot row remains for a status or bid-type change
\* that did not take effect.
C28_NoSnapshotOfFailedSave ==
    PrimaryWriteFailed =>
        /\ projects = last.before.projects
        /\ snapshots = last.before.snapshots

-----------------------------------------------------------------------------
(* Audit writes of a save that changes status and bid type *)

\* the last call was a Project.save of an existing bid that changed both the
\* status and the bid type
BothChanged ==
    /\ SaveRan /\ last.op = "save"
    /\ PrevStatus # Row.status
    /\ PrevBid # Row.bid_type

\* C30: in a Project.save that changes both status and bid type the audit
\* writes are independent: when the STATUS Snapshot write or the STATUS
\* ChangeLog write fails, the BID Snapshot and the BID ChangeLog entry of the
\* same save are still written.
C30_BidAuditIndependent ==
    (BothChanged /\ last.F # {} /\ last.F \subseteq {"snapshot_STATUS", "changelog_STATUS"}) =>
        /\ Added(snapshots, last.before.snapshots, last.pk, "BID") = 1
        /\ Added(changelog, last.before.changelog, last.pk, "BID") = 1

-----------------------------------------------------------------------------
(* What an 'exact' match is *)

\* the record's two texts have the normalized form of the client name and of
\* the name of bid pk
SameTexts(csv_client, csv_survey, pk) ==
    /\ normalize_name(csv_client) = normalize_name(ClientName(clients, projects[pk].client))
    /\ normalize_name(csv_survey) = normalize_name(projects[pk].name)

\* C29: find_matching_project gives the tier 'exact' only when the client text
\* and the survey text both normalize to the candidate's client name and bid
\* name; a candidate whose name only contains the survey name, or is contained
\* in it, is never 'exact'.
C29_ExactMeansSameTexts ==
    (run.script = "find_matching_project" /\ run.match_type = "exact") =>
        /\ run.match \in 1..Len(projects)
        /\ SameTexts(run.Client, run.Survey, run.match)

====
